---- MODULE Spec2Model ----
(***************************************************************************)
(* Time-series data model, metric-classification-aware aggregation,        *)
(* period codec, CSV validation and batch ingestion of the Instagram page  *)
(* analyzer.                                                               *)
(*                                                                         *)
(* Thrown errors are modelled as outcomes: a call evaluates either to      *)
(* Return(v) or to Throw(e).  JavaScript null/undefined is Null.           *)
(* Percentages are exact rationals, market shares are hundredths.          *)
(***************************************************************************)
EXTENDS Integers, Sequences, FiniteSets, TLC

VARIABLES
  dataset,   \* TimeseriesDataset.accountTimeseries: accountKey -> AccountTimeseries
  added,     \* history: the (accountId, year, month) keys added since the last clear
  result,    \* the last operation with its arguments and its outcome
  input,     \* the argument drawn for the pure-function specifications
  batch,     \* the batch operation in flight: its files, position and lists
  app,       \* the state of the App component: its useState values
  store      \* the monthlyData object store of IndexedDB: id -> stored object

vars == <<dataset, added, result, input, batch, app, store>>

----------------------------------------------------------------------------
(* Values shared by all operations *)

Null == [isNull |-> TRUE]

Return(v) == [status |-> "return", value |-> v]

Throw(e) == [status |-> "throw", error |-> e]

\* an array passed where null is also accepted
List(s) == [list |-> s]

\* "const name = v; ...": the rest F of a function body with v bound
With(v, F(_)) == F(v)

EmptyObj == [k \in {} |-> 0]

NoResult == [op |-> "none"]

Range(s) == {s[i] : i \in DOMAIN s}

\* Array.prototype.sort with a comparator: stable, ascending in Cmp
SortWith(s, Cmp(_, _)) ==
  LET n == Len(s)
      pos(i) == 1 + Cardinality({j \in 1..n :
                      Cmp(s[j], s[i]) < 0 \/ (Cmp(s[j], s[i]) = 0 /\ j < i)})
  IN [p \in 1..n |-> s[CHOOSE i \in 1..n : pos(i) = p]]

\* Array.from(map.values()) for a map whose entries are then sorted
ValuesOf(f) ==
  LET n == Cardinality(DOMAIN f)
      ks == CHOOSE s \in [1..n -> DOMAIN f] : Range(s) = DOMAIN f
  IN [i \in 1..n |-> f[ks[i]]]

\* values.reduce((sum, val) => sum + val, 0)
RECURSIVE SumSeq(_)
SumSeq(s) == IF s = <<>> THEN 0 ELSE Head(s) + SumSeq(Tail(s))

\* Math.min(...values), Math.max(...values) of a non-empty list
MinSeq(s) == CHOOSE v \in Range(s) : \A w \in Range(s) : v <= w

MaxSeq(s) == CHOOSE v \in Range(s) : \A w \in Range(s) : v >= w

\* Math.round(n / d) for n >= 0, d > 0: halves round up
RoundDiv(n, d) == (2 * n + d) \div (2 * d)

----------------------------------------------------------------------------
(* Inputs *)

\* InstagramAccount instances (username and accountId already trimmed)
Accounts ==
  { [username |-> "@alpha", accountId |-> "ig1", displayName |-> "Alpha"],
    [username |-> "@beta",  accountId |-> "ig2", displayName |-> "Beta"] }

AccountIds == {a.accountId : a \in Accounts}

\* String.prototype.localeCompare on the usernames in use
UsernameRank ==
  [u \in {"@alpha", "@beta", "@gamma"} |->
     CASE u = "@alpha" -> 1 [] u = "@beta" -> 2 [] u = "@gamma" -> 3]

\* the periods of the uploaded files (a December and the January after it)
Periods == { [year |-> 2024, month |-> 12], [year |-> 2025, month |-> 1] }

\* metric triples as MonthlyAccountData.validateMetrics stores them
\* (parseNumeric keeps a negative number)
MetricRows ==
  { [reach |-> -1, followers |-> 0, views |-> -1],
    [reach |-> 0,  followers |-> 0, views |-> 0],
    [reach |-> 1,  followers |-> 2, views |-> 1],
    [reach |-> 3,  followers |-> 1, views |-> 2] }

----------------------------------------------------------------------------
(* Data model *)

\* InstagramAccount.getKey
AccountKey(account) == <<"account", account.accountId>>

\* the key of AccountTimeseries.monthlyData: `${year}_${month}`
PeriodKey(year, month) == <<year, month>>

\* new MonthlyAccountData(account, year, month, metrics)
MonthlyAccountData(account, year, month, metrics) ==
  [account |-> account, year |-> year, month |-> month, metrics |-> metrics]

\* MonthlyAccountData.getPeriod
getPeriod(data) == [year |-> data.year, month |-> data.month]

\* new AccountTimeseries(account)
NewAccountTimeseries(account) == [account |-> account, monthlyData |-> EmptyObj]

\* mutant: an entry that exists is kept, the new record is dropped
AccountTimeseries_addMonthlyData_keepFirst(ts, monthlyData) ==
  IF monthlyData.account.accountId # ts.account.accountId
  THEN Throw("MonthlyData maste tillhora samma konto")
  ELSE Return([ts EXCEPT !.monthlyData =
         @ @@ (<<monthlyData.year, monthlyData.month>> :> monthlyData)])

\* AccountTimeseries.addMonthlyData: Map.set replaces the entry of the key
AccountTimeseries_addMonthlyData(ts, monthlyData) ==
  IF monthlyData.account.accountId # ts.account.accountId
  THEN Throw("MonthlyData maste tillhora samma konto")
  ELSE Return([ts EXCEPT !.monthlyData =
         (PeriodKey(monthlyData.year, monthlyData.month) :> monthlyData) @@ @])

\* AccountTimeseries.getMonthlyData
AccountTimeseries_getMonthlyData(ts, year, month) ==
  IF PeriodKey(year, month) \in DOMAIN ts.monthlyData
  THEN ts.monthlyData[PeriodKey(year, month)]
  ELSE Null

\* the comparator of getAllMonthlyData / getAvailablePeriods
ComparePeriod(a, b) ==
  IF a.year # b.year THEN a.year - b.year ELSE a.month - b.month

\* AccountTimeseries.getAllMonthlyData
getAllMonthlyData(ts) == SortWith(ValuesOf(ts.monthlyData), ComparePeriod)

\* mutant: the series is created anew on every add
TimeseriesDataset_addMonthlyData_alwaysNew(ds, monthlyData) ==
  LET accountKey == AccountKey(monthlyData.account)
      r == AccountTimeseries_addMonthlyData(
             NewAccountTimeseries(monthlyData.account), monthlyData)
  IN IF r.status = "throw" THEN r
     ELSE Return((accountKey :> r.value) @@ ds)

\* TimeseriesDataset.addMonthlyData
TimeseriesDataset_addMonthlyData(ds, monthlyData) ==
  LET accountKey == AccountKey(monthlyData.account)
      ds1 == IF accountKey \in DOMAIN ds THEN ds
             ELSE (accountKey :> NewAccountTimeseries(monthlyData.account)) @@ ds
      r == AccountTimeseries_addMonthlyData(ds1[accountKey], monthlyData)
  IN IF r.status = "throw" THEN r
     ELSE Return([ds1 EXCEPT ![accountKey] = r.value])

\* TimeseriesDataset.getAccountTimeseries
getAccountTimeseries(ds, accountId) ==
  IF <<"account", accountId>> \in DOMAIN ds THEN ds[<<"account", accountId>>]
  ELSE Null

\* the comparator of getDataForPeriod: a.account.username.localeCompare(...)
CompareUsername(a, b) ==
  UsernameRank[a.account.username] - UsernameRank[b.account.username]

\* TimeseriesDataset.getDataForPeriod
getDataForPeriod(ds, year, month) ==
  LET withData == [k \in {k \in DOMAIN ds :
                     AccountTimeseries_getMonthlyData(ds[k], year, month) # Null}
                   |-> AccountTimeseries_getMonthlyData(ds[k], year, month)]
  IN SortWith(ValuesOf(withData), CompareUsername)

\* TimeseriesDataset.getStats().totalDataPoints
totalDataPoints(ds) ==
  LET ts == ValuesOf(ds)
  IN SumSeq([i \in 1..Len(ts) |-> Cardinality(DOMAIN ts[i].monthlyData)])

\* every record the dataset holds, with the series that holds it
StoredRecords(ds) ==
  UNION {{[series |-> k, data |-> ds[k].monthlyData[p]] :
                 p \in DOMAIN ds[k].monthlyData} : k \in DOMAIN ds}

RecordKey(data) == <<data.account.accountId, data.year, data.month>>

\* dataset.getAccountTimeseries(accountId)?.getMonthlyData(year, month)
Lookup(ds, accountId, year, month) ==
  LET ts == getAccountTimeseries(ds, accountId)
  IN IF ts = Null THEN Null
     ELSE AccountTimeseries_getMonthlyData(ts, year, month)

----------------------------------------------------------------------------
(* Metric registry and legality check *)

NON_SUMMABLE_METRICS == <<"reach">>

SUMMABLE_METRICS == <<"followers", "views">>

\* const allMetrics = ['reach', 'followers', 'views']
allMetrics == <<"reach", "followers", "views">>

\* Array.prototype.includes
Includes(list, x) == x \in Range(list)

\* METRIC_DEFINITIONS: the fields the aggregation rules read
METRIC_DEFINITIONS ==
  [reach |-> [category |-> "unique_persons", canSumAcrossTime |-> FALSE,
              canSumAcrossPages |-> FALSE, preferredAggregation |-> "average",
              validAggregations |-> <<"average", "min", "max">>],
   followers |-> [category |-> "countable_metric", canSumAcrossTime |-> TRUE,
              canSumAcrossPages |-> TRUE, preferredAggregation |-> "sum",
              validAggregations |-> <<"sum", "average", "min", "max">>],
   views |-> [category |-> "countable_events", canSumAcrossTime |-> TRUE,
              canSumAcrossPages |-> TRUE, preferredAggregation |-> "sum",
              validAggregations |-> <<"sum", "average", "min", "max">>]]

\* getMetricDefinition: METRIC_DEFINITIONS[metricKey] || null
getMetricDefinition(metricKey) ==
  IF metricKey \in DOMAIN METRIC_DEFINITIONS THEN METRIC_DEFINITIONS[metricKey]
  ELSE Null

canSumAcrossTime(metricKey) ==
  LET definition == getMetricDefinition(metricKey)
  IN IF definition # Null THEN definition.canSumAcrossTime ELSE FALSE

canSumAcrossPages(metricKey) ==
  LET definition == getMetricDefinition(metricKey)
  IN IF definition # Null THEN definition.canSumAcrossPages ELSE FALSE

\* the operation names callers pass
Operations == {"sum", "total", "SUM", "Total", "average", "min", "max", "median"}

\* String.prototype.toLowerCase on the operation names
toLowerCase(operation) ==
  CASE operation = "SUM" -> "sum"
    [] operation = "Total" -> "total"
    [] OTHER -> operation

\* mutant: the check forgets the 'total' spelling
validateMetricOperation_sumOnly(operation, metric) ==
  IF operation = "sum" /\ Includes(<<"reach">>, metric)
  THEN Throw("KRITISKT FEL: kan ALDRIG summeras over tid")
  ELSE Return([isNull |-> TRUE])

\* reach_calculator.validateMetricOperation: compares the name with ===
\* (the console.warn for averaging a summable metric has no effect)
validateMetricOperation(operation, metric) ==
  IF (operation = "sum" \/ operation = "total")
     /\ Includes(NON_SUMMABLE_METRICS, metric)
  THEN Throw("KRITISKT FEL: kan ALDRIG summeras over tid")
  ELSE Return(Null)

\* value !== null && value !== undefined && !isNaN(value) && value >= 0
IsValidValue(value) == value >= 0

\* monthlyData.map(data => data.metrics[metric]).filter(valid)
ValidValues(monthlyData, metric) ==
  SelectSeq([i \in 1..Len(monthlyData) |-> monthlyData[i].metrics[metric]],
            IsValidValue)

\* reach_calculator.safeMetricAggregation
safeMetricAggregation(accountTimeseries, metric, operation) ==
  IF accountTimeseries = Null
  THEN Throw("safeMetricAggregation kraver AccountTimeseries, metric och operation")
  ELSE
  LET check == validateMetricOperation(operation, metric)
      monthlyData == getAllMonthlyData(accountTimeseries)
      values == ValidValues(monthlyData, metric)
      op == toLowerCase(operation)
  IN IF check.status = "throw" THEN check
     ELSE IF Len(monthlyData) = 0 THEN Return(0)
     ELSE IF Len(values) = 0 THEN Return(0)
     ELSE CASE op \in {"sum", "total"} -> Return(SumSeq(values))
            [] op \in {"average", "mean"} ->
                 Return(RoundDiv(SumSeq(values), Len(values)))
            [] op \in {"min", "minimum"} -> Return(MinSeq(values))
            [] op \in {"max", "maximum"} -> Return(MaxSeq(values))
            [] OTHER -> Throw("Okand operation")

----------------------------------------------------------------------------
(* Aggregation service *)

AccountInfo(account) ==
  [username |-> account.username, accountId |-> account.accountId,
   displayName |-> account.displayName]

\* createEmptyAggregation
createEmptyAggregation(account) ==
  [account |-> AccountInfo(account),
   periods |-> [total |-> 0, first |-> Null, last |-> Null, included |-> <<>>],
   metrics |-> [metric \in Range(allMetrics) |->
     IF Includes(NON_SUMMABLE_METRICS, metric)
     THEN [type |-> "average", average |-> 0, min |-> 0, max |-> 0,
           note |-> "Inga data tillgangliga"]
     ELSE [type |-> "total", total |-> 0, average |-> 0,
           note |-> "Inga data tillgangliga"]]]

\* the period filter of aggregateAccountData; the optional argument is Null
\* or List(periods)
FilterPeriods(monthlyData, periodsArg) ==
  IF periodsArg # Null /\ Len(periodsArg.list) > 0
  THEN LET periods == periodsArg.list
           periodKeys == {PeriodKey(periods[i].year, periods[i].month) :
                            i \in 1..Len(periods)}
           inFilter(data) == PeriodKey(data.year, data.month) \in periodKeys
       IN SelectSeq(monthlyData, inFilter)
  ELSE monthlyData

\* aggregateAccountData(accountTimeseries, periods = null)
aggregateAccountData(accountTimeseries, periods) ==
  IF accountTimeseries = Null
  THEN Throw("aggregateAccountData kraver AccountTimeseries")
  ELSE
  LET monthlyData == FilterPeriods(getAllMonthlyData(accountTimeseries), periods)
      agg(metric, operation) ==
        safeMetricAggregation(accountTimeseries, metric, operation)
      calls == {agg(metric, operation) :
                  metric \in Range(NON_SUMMABLE_METRICS),
                  operation \in {"average", "min", "max"}}
               \cup {agg(metric, operation) :
                  metric \in Range(allMetrics) \ Range(NON_SUMMABLE_METRICS),
                  operation \in {"sum", "average"}}
  IN IF Len(monthlyData) = 0
     THEN Return(createEmptyAggregation(accountTimeseries.account))
     ELSE IF \E c \in calls : c.status = "throw"
     THEN CHOOSE c \in calls : c.status = "throw"
     ELSE Return(
       [account |-> AccountInfo(accountTimeseries.account),
        periods |-> [total |-> Len(monthlyData),
                     first |-> getPeriod(monthlyData[1]),
                     last |-> getPeriod(monthlyData[Len(monthlyData)]),
                     included |-> [i \in 1..Len(monthlyData) |->
                                     getPeriod(monthlyData[i])]],
        metrics |-> [metric \in Range(allMetrics) |->
          IF Includes(NON_SUMMABLE_METRICS, metric)
          THEN [type |-> "average",
                average |-> agg(metric, "average").value,
                min |-> agg(metric, "min").value,
                max |-> agg(metric, "max").value,
                note |-> "Genomsnitt - kan ej summeras over manader"]
          ELSE [type |-> "total",
                total |-> agg(metric, "sum").value,
                average |-> agg(metric, "average").value,
                note |-> "Total - kan summeras over manader"]]])

\* mutant: the values are not filtered before the statistics are computed
PeriodMetricSummary_unfiltered(periodData, metric) ==
  LET values == [i \in 1..Len(periodData) |-> periodData[i].metrics[metric]]
      total == SumSeq(values)
  IN IF Includes(NON_SUMMABLE_METRICS, metric)
     THEN [average |-> RoundDiv(SumSeq(values), Len(values)),
           min |-> MinSeq(values), max |-> MaxSeq(values),
           validAccounts |-> Len(values), type |-> "unique_persons",
           note |-> "Genomsnitt over konton - total reach kan inte beraknas"]
     ELSE [total |-> total, average |-> RoundDiv(total, Len(values)),
           min |-> MinSeq(values), max |-> MaxSeq(values),
           validAccounts |-> Len(values), type |-> "countable"]

\* the per-metric entry of calculatePeriodSummary
PeriodMetricSummary(periodData, metric) ==
  LET values == ValidValues(periodData, metric)
      total == SumSeq(values)
  IN IF Len(values) = 0
     THEN [total |-> 0, average |-> 0, min |-> 0, max |-> 0, validAccounts |-> 0,
           type |-> IF Includes(NON_SUMMABLE_METRICS, metric)
                    THEN "unique_persons" ELSE "countable"]
     ELSE IF Includes(NON_SUMMABLE_METRICS, metric)
     THEN [average |-> RoundDiv(SumSeq(values), Len(values)),
           min |-> MinSeq(values), max |-> MaxSeq(values),
           validAccounts |-> Len(values), type |-> "unique_persons",
           note |-> "Genomsnitt over konton - total reach kan inte beraknas"]
     ELSE [total |-> total, average |-> RoundDiv(total, Len(values)),
           min |-> MinSeq(values), max |-> MaxSeq(values),
           validAccounts |-> Len(values), type |-> "countable"]

\* calculatePeriodSummary(dataset, year, month)
calculatePeriodSummary(ds, year, month) ==
  LET periodData == getDataForPeriod(ds, year, month)
  IN IF Len(periodData) = 0
     THEN [period |-> [year |-> year, month |-> month], totalAccounts |-> 0,
           metrics |-> EmptyObj]
     ELSE [period |-> [year |-> year, month |-> month],
           totalAccounts |-> Len(periodData),
           metrics |-> [metric \in Range(allMetrics) |->
                          PeriodMetricSummary(periodData, metric)]]

\* a JavaScript number that is a ratio of integers, in lowest terms
RECURSIVE GCD(_, _)
GCD(a, b) == IF b = 0 THEN a ELSE GCD(b, a % b)

Abs(n) == IF n < 0 THEN -n ELSE n

Ratio(n, d) ==
  LET g == GCD(Abs(n), Abs(d))
      sign == IF d < 0 THEN -1 ELSE 1
  IN [num |-> sign * (n \div g), den |-> sign * (d \div g)]

Number(n) == [num |-> n, den |-> 1]

\* the per-metric entry of one comparison in comparePeriods
PeriodMetricComparison(currentMetric, previousMetric, metric) ==
  IF Includes(NON_SUMMABLE_METRICS, metric)
  THEN LET currentVal == currentMetric.average
           previousVal == previousMetric.average
       IN [currentAverage |-> currentVal, previousAverage |-> previousVal,
           absoluteChange |-> currentVal - previousVal,
           percentageChange |->
             IF previousVal > 0
             THEN Ratio((currentVal - previousVal) * 100, previousVal)
             ELSE Null,
           type |-> "average_comparison"]
  ELSE LET currentVal == currentMetric.total
           previousVal == previousMetric.total
       IN [currentTotal |-> currentVal, previousTotal |-> previousVal,
           absoluteChange |-> currentVal - previousVal,
           percentageChange |->
             IF previousVal > 0
             THEN Ratio((currentVal - previousVal) * 100, previousVal)
             ELSE Null,
           type |-> "total_comparison"]

\* comparePeriods(dataset, periods): reading .average / .total of a metric
\* entry that a summary without accounts does not have is a TypeError
comparePeriods(ds, periods) ==
  IF Len(periods) < 2
  THEN Throw("comparePeriods kraver TimeseriesDataset och minst 2 perioder")
  ELSE
  LET periodSummaries == [i \in 1..Len(periods) |->
        calculatePeriodSummary(ds, periods[i].year, periods[i].month)]
  IN IF \E i \in 1..Len(periods) : DOMAIN periodSummaries[i].metrics = {}
     THEN Throw("TypeError")
     ELSE Return([k \in 1..(Len(periods) - 1) |->
       LET current == periodSummaries[k + 1]
           previous == periodSummaries[k]
       IN [currentPeriod |-> current.period,
           previousPeriod |-> previous.period,
           accountCountChange |-> current.totalAccounts - previous.totalAccounts,
           metrics |-> [metric \in Range(allMetrics) |->
              PeriodMetricComparison(current.metrics[metric],
                                     previous.metrics[metric], metric)]]])

\* the comparator of calculateMarketShare: b.marketShare - a.marketShare
CompareShareDesc(a, b) == b.marketShare - a.marketShare

\* mutant: the share is cut off after two decimals, not rounded
MarketShareRows_truncated(ds, year, month, metric) ==
  LET periodData == getDataForPeriod(ds, year, month)
      valid(data) == IsValidValue(data.metrics[metric])
      validData == SelectSeq(periodData, valid)
      totalMarket == SumSeq([i \in 1..Len(validData) |->
                               validData[i].metrics[metric]])
  IN IF Len(periodData) = 0 THEN Return(<<>>)
     ELSE IF Len(validData) = 0 THEN Return(<<>>)
     ELSE IF totalMarket = 0 THEN Return(<<>>)
     ELSE Return(SortWith(
       [i \in 1..Len(validData) |->
          [account |-> AccountInfo(validData[i].account),
           period |-> [year |-> year, month |-> month],
           metric |-> metric,
           value |-> validData[i].metrics[metric],
           marketShare |-> (validData[i].metrics[metric] * 10000)
                             \div totalMarket,
           totalMarket |-> totalMarket]],
       CompareShareDesc))

\* the body of calculateMarketShare after its legality check; marketShare is
\* kept in hundredths of a percent: Math.round(value / totalMarket * 10000)
MarketShareRows(ds, year, month, metric) ==
  LET periodData == getDataForPeriod(ds, year, month)
      valid(data) == IsValidValue(data.metrics[metric])
      validData == SelectSeq(periodData, valid)
      totalMarket == SumSeq([i \in 1..Len(validData) |->
                               validData[i].metrics[metric]])
  IN IF Len(periodData) = 0 THEN Return(<<>>)
     ELSE IF Len(validData) = 0 THEN Return(<<>>)
     ELSE IF totalMarket = 0 THEN Return(<<>>)
     ELSE Return(SortWith(
       [i \in 1..Len(validData) |->
          [account |-> AccountInfo(validData[i].account),
           period |-> [year |-> year, month |-> month],
           metric |-> metric,
           value |-> validData[i].metrics[metric],
           marketShare |-> RoundDiv(validData[i].metrics[metric] * 10000,
                                    totalMarket),
           totalMarket |-> totalMarket]],
       CompareShareDesc))

\* mutant: the legality check is missing
calculateMarketShare_unchecked(ds, year, month, metric) ==
  MarketShareRows(ds, year, month, metric)

\* calculateMarketShare(dataset, year, month, metric)
calculateMarketShare(ds, year, month, metric) ==
  IF Includes(NON_SUMMABLE_METRICS, metric)
  THEN Throw("Marknadsandel kan inte beraknas")
  ELSE MarketShareRows(ds, year, month, metric)

----------------------------------------------------------------------------
(* Operations on the dataset *)

AddMonthlyData ==
  \E account \in Accounts, period \in Periods, metrics \in MetricRows :
    LET data == MonthlyAccountData(account, period.year, period.month, metrics)
        r == TimeseriesDataset_addMonthlyData(dataset, data)
        previous == Lookup(dataset, account.accountId, data.year, data.month)
    IN /\ r.status = "return"
       /\ dataset' = r.value
       /\ added' = added \cup {RecordKey(data)}
       /\ result' = [op |-> "addMonthlyData", data |-> data,
                     replaced |-> previous # Null, previous |-> previous,
                     countBefore |-> totalDataPoints(dataset)]
       /\ UNCHANGED <<input, batch, app, store>>

\* TimeseriesDataset.clear
Clear ==
  /\ dataset' = EmptyObj
  /\ added' = {}
  /\ result' = [op |-> "clear"]
  /\ UNCHANGED <<input, batch, app, store>>

\* the period lists callers pass as a filter or as a comparison
PeriodLists ==
  UNION {[1..n -> Periods] : n \in 0..Cardinality(Periods)}

Queries == <<dataset, added, input, batch, app, store>>

CalculatePeriodSummary ==
  \E period \in Periods :
    /\ result = NoResult
    /\ result' = [op |-> "calculatePeriodSummary", period |-> period,
                  out |-> calculatePeriodSummary(dataset, period.year, period.month)]
    /\ UNCHANGED Queries

AggregateAccountData ==
  \E accountId \in AccountIds,
     periods \in {List(l) : l \in PeriodLists} \cup {Null} :
    /\ result = NoResult
    /\ result' = [op |-> "aggregateAccountData", accountId |-> accountId,
                  periods |-> periods,
                  out |-> aggregateAccountData(
                            getAccountTimeseries(dataset, accountId), periods)]
    /\ UNCHANGED Queries

SafeMetricAggregation ==
  \E accountId \in AccountIds, metric \in Range(allMetrics),
     operation \in Operations :
    /\ result = NoResult
    /\ result' = [op |-> "safeMetricAggregation", accountId |-> accountId,
                  metric |-> metric, operation |-> operation,
                  out |-> safeMetricAggregation(
                            getAccountTimeseries(dataset, accountId),
                            metric, operation)]
    /\ UNCHANGED Queries

ValidateMetricOperation ==
  \E operation \in Operations, metric \in Range(allMetrics) :
    /\ result = NoResult
    /\ result' = [op |-> "validateMetricOperation", metric |-> metric,
                  operation |-> operation,
                  out |-> validateMetricOperation(operation, metric)]
    /\ UNCHANGED Queries

ComparePeriods ==
  \E periods \in PeriodLists :
    /\ result = NoResult
    /\ result' = [op |-> "comparePeriods", periods |-> periods,
                  out |-> comparePeriods(dataset, periods)]
    /\ UNCHANGED Queries

CalculateMarketShare ==
  \E period \in Periods, metric \in Range(allMetrics) :
    /\ result = NoResult
    /\ result' = [op |-> "calculateMarketShare", period |-> period,
                  metric |-> metric,
                  out |-> calculateMarketShare(dataset, period.year,
                                               period.month, metric)]
    /\ UNCHANGED Queries

Init ==
  /\ app = Null
  /\ store = EmptyObj
  /\ dataset = EmptyObj
  /\ added = {}
  /\ result = NoResult
  /\ batch = Null
  /\ input = Null

Next == AddMonthlyData \/ Clear

Spec == Init /\ [][Next]_vars

----------------------------------------------------------------------------
(* The aggregation functions applied to a dataset built by addMonthlyData *)

\* one optional record per account and period
RecordSlots == Accounts \X Periods

RECURSIVE AddAll(_, _, _)
AddAll(ds, slots, rowOf) ==
  IF slots = {} THEN ds
  ELSE LET slot == CHOOSE x \in slots : TRUE
           next == IF rowOf[slot] = Null THEN ds
                   ELSE TimeseriesDataset_addMonthlyData(ds,
                          MonthlyAccountData(slot[1], slot[2].year,
                                             slot[2].month, rowOf[slot])).value
       IN AddAll(next, slots \ {slot}, rowOf)

InitAgg ==
  /\ app = Null
  /\ store = EmptyObj
  /\ \E rowOf \in [RecordSlots -> MetricRows \cup {Null}] :
       /\ dataset = AddAll(EmptyObj, RecordSlots, rowOf)
       /\ added = {<<slot[1].accountId, slot[2].year, slot[2].month>> :
                     slot \in {x \in RecordSlots : rowOf[x] # Null}}
  /\ result = NoResult
  /\ batch = Null
  /\ input = Null

NextAgg ==
  \/ CalculatePeriodSummary
  \/ AggregateAccountData
  \/ SafeMetricAggregation
  \/ ValidateMetricOperation
  \/ ComparePeriods
  \/ CalculateMarketShare

SpecAgg == InitAgg /\ [][NextAgg]_vars

----------------------------------------------------------------------------
(* Properties of the aggregation functions, checked under SpecAgg *)

SumFields == {"sum", "total"}

\* C1: for every dataset and every non-summable metric, the per-metric result
\* of calculatePeriodSummary and of aggregateAccountData (its empty
\* aggregation included) has no sum or total field, also when no account has
\* a valid value for the metric in the period.
C1_NoSumFieldForNonSummable ==
  /\ result.op = "calculatePeriodSummary" =>
       \A metric \in DOMAIN result.out.metrics :
         ~canSumAcrossTime(metric) =>
           DOMAIN result.out.metrics[metric] \cap SumFields = {}
  /\ (result.op = "aggregateAccountData" /\ result.out.status = "return") =>
       \A metric \in DOMAIN result.out.value.metrics :
         ~canSumAcrossTime(metric) =>
           DOMAIN result.out.value.metrics[metric] \cap SumFields = {}

\* C2: every call of safeMetricAggregation with a metric that is not
\* time-summable and an operation name that its switch executes as a
\* summation fails with an error.
C2_SummationNeverBypassesCheck ==
  (/\ result.op = "safeMetricAggregation"
   /\ ~canSumAcrossTime(result.metric)
   /\ toLowerCase(result.operation) \in {"sum", "total"})
  => result.out.status = "throw"

\* C3: validateMetricOperation(op, m) throws if and only if op is 'sum' or
\* 'total' and m is not time-summable.
C3_ThrowsIffSumOfNonSummable ==
  result.op = "validateMetricOperation" =>
    (result.out.status = "throw"
       <=> (result.operation \in {"sum", "total"}
            /\ ~canSumAcrossTime(result.metric)))

C3_Witness ==
  /\ result.op = "validateMetricOperation"
  /\ result.operation = "total"
  /\ ~canSumAcrossTime(result.metric)
  /\ result.out.status = "throw"

\* C4: calculateMarketShare fails for every metric that is not
\* accounts-summable, whatever the dataset and period.
C4_MarketShareRejectsNonSummable ==
  (result.op = "calculateMarketShare" /\ ~canSumAcrossPages(result.metric))
  => result.out.status = "throw"

C4_Witness ==
  /\ result.op = "calculateMarketShare"
  /\ ~canSumAcrossPages(result.metric)
  /\ result.out.status = "throw"
  /\ LET periodData == getDataForPeriod(dataset, result.period.year,
                                        result.period.month)
     IN /\ Len(periodData) = 2
        /\ periodData[1].metrics[result.metric] = 1
        /\ periodData[2].metrics[result.metric] = 3

\* the value an operation yields on the valid values of a list of records
ValueOver(monthlyData, metric, operation) ==
  LET values == ValidValues(monthlyData, metric)
  IN IF Len(values) = 0 THEN 0
     ELSE CASE operation = "sum" -> SumSeq(values)
            [] operation = "average" -> RoundDiv(SumSeq(values), Len(values))
            [] operation = "min" -> MinSeq(values)
            [] operation = "max" -> MaxSeq(values)

\* C5: with a non-empty period filter every metric value aggregateAccountData
\* returns is computed from exactly the records whose period is in the filter.
C5_FilterRestrictsEveryValue ==
  (/\ result.op = "aggregateAccountData"
   /\ result.periods # Null
   /\ result.out.status = "return")
  => (Len(result.periods.list) > 0 =>
      LET ts == getAccountTimeseries(dataset, result.accountId)
          filtered == FilterPeriods(getAllMonthlyData(ts), result.periods)
          metrics == result.out.value.metrics
      IN \A metric \in DOMAIN metrics :
           /\ metrics[metric].average = ValueOver(filtered, metric, "average")
           /\ "total" \in DOMAIN metrics[metric] =>
                metrics[metric].total = ValueOver(filtered, metric, "sum")
           /\ "min" \in DOMAIN metrics[metric] =>
                metrics[metric].min = ValueOver(filtered, metric, "min")
           /\ "max" \in DOMAIN metrics[metric] =>
                metrics[metric].max = ValueOver(filtered, metric, "max"))

\* the value of a metric that comparePeriods compares: the total of a
\* summable metric, the average of a non-summable one
ComparedValue(summary, metric) ==
  IF canSumAcrossTime(metric) THEN summary.metrics[metric].total
  ELSE summary.metrics[metric].average

\* the divide-by-zero convention of the percentage change
ConventionChange(current, previous) ==
  IF previous = 0 THEN (IF current > 0 THEN Number(100) ELSE Number(0))
  ELSE Ratio((current - previous) * 100, previous)

\* C6: in comparePeriods, for every adjacent pair of periods and every metric,
\* absoluteChange = current - previous and percentageChange follows the
\* convention (previous 0: 100 if current > 0, else 0; otherwise the relative
\* change), on totals for summable metrics and averages for non-summable ones.
C6_ComparePeriodsConvention ==
  (result.op = "comparePeriods" /\ result.out.status = "return") =>
    \A k \in DOMAIN result.out.value : \A metric \in Range(allMetrics) :
      LET current == ComparedValue(calculatePeriodSummary(dataset,
                       result.periods[k + 1].year, result.periods[k + 1].month),
                       metric)
          previous == ComparedValue(calculatePeriodSummary(dataset,
                       result.periods[k].year, result.periods[k].month), metric)
          entry == result.out.value[k].metrics[metric]
      IN /\ entry.absoluteChange = current - previous
         /\ entry.percentageChange = ConventionChange(current, previous)

\* the valid (numeric, non-negative) values of a metric that the records of a
\* period hold, one per account
PeriodValues(ds, period, metric) ==
  LET held == {r \in StoredRecords(ds) :
                 /\ getPeriod(r.data) = period
                 /\ r.data.metrics[metric] >= 0}
  IN [accountId \in {r.data.account.accountId : r \in held} |->
        (CHOOSE r \in held : r.data.account.accountId = accountId)
          .data.metrics[metric]]

RECURSIVE SumOf(_)
SumOf(f) ==
  IF DOMAIN f = {} THEN 0
  ELSE LET k == CHOOSE x \in DOMAIN f : TRUE
       IN f[k] + SumOf([x \in DOMAIN f \ {k} |-> f[x]])

\* C11: for a summable metric and a period in which at least one account has
\* a valid value, calculatePeriodSummary returns total = the sum of the valid
\* values, average = total / count rounded to the nearest integer, the min and
\* max of the valid values and validAccounts = their count; negative values
\* are left out.
C11_SummaryOfValidValues ==
  result.op = "calculatePeriodSummary" =>
    \A metric \in Range(allMetrics) :
      LET values == PeriodValues(dataset, result.period, metric)
          count == Cardinality(DOMAIN values)
      IN (canSumAcrossTime(metric) /\ count > 0) =>
           LET entry == result.out.metrics[metric]
           IN /\ entry.total = SumOf(values)
              /\ 2 * entry.average * count - 2 * entry.total <= count
              /\ 2 * entry.total - 2 * entry.average * count <= count
              /\ entry.min \in Range(values)
              /\ entry.max \in Range(values)
              /\ \A k \in DOMAIN values :
                   entry.min <= values[k] /\ values[k] <= entry.max
              /\ entry.validAccounts = count

\* Views [1, 2] in one period: total 3, average 2, min 1, max 2, 2 accounts
C11_Witness ==
  /\ result.op = "calculatePeriodSummary"
  /\ Range(PeriodValues(dataset, result.period, "views")) = {1, 2}
  /\ result.out.metrics["views"].total = 3
  /\ result.out.metrics["views"].average = 2
  /\ result.out.metrics["views"].min = 1
  /\ result.out.metrics["views"].max = 2
  /\ result.out.metrics["views"].validAccounts = 2

\* C12: for every metric with zero valid values in the requested period, also
\* when no account has a record for the period, the result of
\* calculatePeriodSummary holds a zero-valued entry with validAccounts = 0.
C12_ZeroEntryWithoutData ==
  result.op = "calculatePeriodSummary" =>
    \A metric \in Range(allMetrics) :
      DOMAIN PeriodValues(dataset, result.period, metric) = {} =>
        /\ metric \in DOMAIN result.out.metrics
        /\ result.out.metrics[metric].average = 0
        /\ result.out.metrics[metric].min = 0
        /\ result.out.metrics[metric].max = 0
        /\ result.out.metrics[metric].validAccounts = 0

----------------------------------------------------------------------------
(* Period codec *)

\* new Date().getFullYear() in isValidYear
CurrentYear == 2025

MinYear == 2010

MaxYearsAhead == 5

isValidYear(year) == year >= MinYear /\ year <= CurrentYear + MaxYearsAhead

\* mutant: the month has no upper limit
isValidMonth_noUpperLimit(month) == month >= 1

isValidMonth(month) == month >= 1 /\ month <= 12

isValidPeriod(year, month) == isValidYear(year) /\ isValidMonth(month)

\* createStandardFilename: `IG_${year}_${paddedMonth}.csv`, the month padded
\* to two digits
createStandardFilename(year, month) ==
  IF ~isValidPeriod(year, month) THEN Throw("Ogiltig period")
  ELSE Return([prefix |-> "IG_", year |-> year,
               paddedMonth |-> <<month \div 10, month % 10>>,
               extension |-> ".csv"])

\* a filename, split where the filename patterns split it: the text before
\* the first digit, a run of digits, the text between the digit runs, a
\* second run of digits and the rest
Filename(prefix, yearDigits, separator, monthDigits, extension) ==
  [prefix |-> prefix, yearDigits |-> yearDigits, separator |-> separator,
   monthDigits |-> monthDigits, extension |-> extension]

\* the spellings a text matches under the i flag, for the texts in use
IgnoreCase(text) ==
  CASE text = "IG_" -> {"IG_", "ig_", "Ig_"}
    [] text = ".csv" -> {".csv", ".CSV", ".Csv"}

\* IG_FILENAME_PATTERN = /^IG_(\d{4})_(\d{1,2})\.csv$/i
IG_FILENAME_PATTERN(filename) ==
  /\ filename.prefix \in IgnoreCase("IG_")
  /\ Len(filename.yearDigits) = 4
  /\ filename.separator = "_"
  /\ Len(filename.monthDigits) \in {1, 2}
  /\ filename.extension \in IgnoreCase(".csv")

\* FLEXIBLE_FILENAME_PATTERN = /^(?:IG_)?(\d{4})_(\d{1,2})\.csv$/i
FLEXIBLE_FILENAME_PATTERN(filename) ==
  /\ filename.prefix \in IgnoreCase("IG_") \cup {""}
  /\ Len(filename.yearDigits) = 4
  /\ filename.separator = "_"
  /\ Len(filename.monthDigits) \in {1, 2}
  /\ filename.extension \in IgnoreCase(".csv")

\* parseInt(digits, 10) of a non-empty run of decimal digits
RECURSIVE parseInt(_)
parseInt(digits) ==
  IF Len(digits) = 0 THEN 0
  ELSE 10 * parseInt(SubSeq(digits, 1, Len(digits) - 1)) + digits[Len(digits)]

\* extractPeriodFromFilename(filename, strict = true); the failure value is
\* null
extractPeriodFromFilename(filename, strict) ==
  LET match == IF strict THEN IG_FILENAME_PATTERN(filename)
               ELSE FLEXIBLE_FILENAME_PATTERN(filename)
      year == parseInt(filename.yearDigits)
      month == parseInt(filename.monthDigits)
  IN IF ~match THEN Null
     ELSE IF ~isValidYear(year) \/ ~isValidMonth(month) THEN Null
     ELSE [year |-> year, month |-> month, filename |-> filename,
           isValid |-> TRUE]

\* mutant: the roll-over to the next year happens one month early
NextMonth_skipDecember(currentYear, currentMonth) ==
  IF currentMonth + 1 > 11
  THEN [year |-> currentYear + 1, month |-> 1]
  ELSE [year |-> currentYear, month |-> currentMonth + 1]

\* currentMonth++; if (currentMonth > 12) { currentMonth = 1; currentYear++ }
NextMonth(currentYear, currentMonth) ==
  IF currentMonth + 1 > 12
  THEN [year |-> currentYear + 1, month |-> 1]
  ELSE [year |-> currentYear, month |-> currentMonth + 1]

\* the while loop of findMissingPeriods
RECURSIVE WalkMonths(_, _, _, _)
WalkMonths(currentYear, currentMonth, last, existingPeriods) ==
  IF currentYear < last.year
     \/ (currentYear = last.year /\ currentMonth <= last.month)
  THEN LET missing ==
             IF PeriodKey(currentYear, currentMonth) \notin existingPeriods
             THEN <<[year |-> currentYear, month |-> currentMonth,
                     filename |-> createStandardFilename(currentYear,
                                                         currentMonth)]>>
             ELSE <<>>
           next == NextMonth(currentYear, currentMonth)
       IN missing \o WalkMonths(next.year, next.month, last, existingPeriods)
  ELSE <<>>

\* findMissingPeriods(periods)
findMissingPeriods(periods) ==
  IF Len(periods) = 0 THEN Return(<<>>)
  ELSE
  LET sortedPeriods == SortWith(periods, ComparePeriod)
      first == sortedPeriods[1]
      last == sortedPeriods[Len(sortedPeriods)]
      existingPeriods == {PeriodKey(periods[i].year, periods[i].month) :
                            i \in 1..Len(periods)}
      missing == WalkMonths(first.year, first.month, last, existingPeriods)
  IN IF \E i \in 1..Len(missing) : missing[i].filename.status = "throw"
     THEN missing[CHOOSE i \in 1..Len(missing) :
                    missing[i].filename.status = "throw"].filename
     ELSE Return([i \in 1..Len(missing) |->
                    [missing[i] EXCEPT !.filename = @.value]])

----------------------------------------------------------------------------
(* findMissingPeriods applied to a contiguous range with one period removed *)

MaxRangeLen == 4

\* the n-th month after a period
AddMonths(period, n) ==
  LET t == period.year * 12 + (period.month - 1) + n
  IN [year |-> t \div 12, month |-> (t % 12) + 1]

MonthRange(start, len) == [i \in 1..len |-> AddMonths(start, i - 1)]

RemoveAt(s, k) == SubSeq(s, 1, k - 1) \o SubSeq(s, k + 1, Len(s))

Reverse(s) == [i \in 1..Len(s) |-> s[Len(s) + 1 - i]]

\* ranges start in the first and in the last valid year
StartPeriods ==
  {[year |-> y, month |-> m] :
     y \in {MinYear, CurrentYear + MaxYearsAhead}, m \in 1..12}

InitMissing ==
  /\ app = Null
  /\ store = EmptyObj
  /\ dataset = EmptyObj
  /\ added = {}
  /\ result = NoResult
  /\ batch = Null
  /\ \E start \in StartPeriods, len \in 1..MaxRangeLen, reversed \in BOOLEAN :
       \E k \in 1..len :
         LET range == MonthRange(start, len)
             rest == RemoveAt(range, k)
         IN /\ \A i \in 1..len : isValidPeriod(range[i].year, range[i].month)
            /\ input = [range |-> range, removedIndex |-> k,
                        periods |-> IF reversed THEN Reverse(rest) ELSE rest]

FindMissingPeriods ==
  /\ result = NoResult
  /\ result' = [op |-> "findMissingPeriods",
                out |-> findMissingPeriods(input.periods)]
  /\ UNCHANGED Queries

NextMissing == FindMissingPeriods

SpecMissing == InitMissing /\ [][NextMissing]_vars

\* the missing list is exactly the removed period
ReturnsRemovedPeriod ==
  /\ result.out.status = "return"
  /\ Len(result.out.value) = 1
  /\ result.out.value[1].year = input.range[input.removedIndex].year
  /\ result.out.value[1].month = input.range[input.removedIndex].month

\* C7 as stated: for any contiguous range of months and any single period of
\* it, findMissingPeriods of the range without that period returns exactly
\* that period.
C7_RoundTripAnyPeriod ==
  result.op = "findMissingPeriods" => ReturnsRemovedPeriod

\* C7 amended: the round trip holds for every period of the range other than
\* its first and its last.
C7_RoundTripInteriorPeriod ==
  (/\ result.op = "findMissingPeriods"
   /\ input.removedIndex > 1
   /\ input.removedIndex < Len(input.range))
  => ReturnsRemovedPeriod

C7_Witness ==
  /\ result.op = "findMissingPeriods"
  /\ input.removedIndex > 1
  /\ input.removedIndex < Len(input.range)
  /\ input.range[input.removedIndex].month = 12
  /\ input.range[1].year < input.range[Len(input.range)].year
  /\ ReturnsRemovedPeriod

----------------------------------------------------------------------------
(* extractPeriodFromFilename applied to filenames *)

\* String(n) of a four-digit number
Digits4(n) ==
  <<n \div 1000, (n \div 100) % 10, (n \div 10) % 10, n % 10>>

\* years around every limit the filename checks use, and runs of 3 and 5 digits
YearDigitRuns ==
  {Digits4(y) : y \in {MinYear - 1, MinYear, 2019, 2020, CurrentYear,
                       CurrentYear + MaxYearsAhead,
                       CurrentYear + MaxYearsAhead + 1, 9999}}
    \cup {<<2, 0, 2>>, <<0, 2, 0, 2, 5>>}

MonthDigitRuns ==
  {<<>>, <<0>>, <<1>>, <<9>>, <<0, 0>>, <<0, 1>>, <<1, 2>>, <<1, 3>>,
   <<9, 9>>, <<0, 1, 2>>}

Filenames ==
  {Filename(prefix, yearDigits, separator, monthDigits, extension) :
     prefix \in {"IG_", "ig_", "", "FB_"}, yearDigits \in YearDigitRuns,
     separator \in {"_", "-"}, monthDigits \in MonthDigitRuns,
     extension \in {".csv", ".CSV", ".txt", ".csv.bak"}}

InitFilename ==
  /\ app = Null
  /\ store = EmptyObj
  /\ dataset = EmptyObj
  /\ added = {}
  /\ result = NoResult
  /\ batch = Null
  /\ \E filename \in Filenames, strict \in BOOLEAN :
       input = [filename |-> filename, strict |-> strict]

ExtractPeriodFromFilename ==
  /\ result = NoResult
  /\ result' = [op |-> "extractPeriodFromFilename",
                out |-> extractPeriodFromFilename(input.filename, input.strict)]
  /\ UNCHANGED Queries

NextFilename == ExtractPeriodFromFilename

SpecFilename == InitFilename /\ [][NextFilename]_vars

\* C15: in strict and in lenient mode every non-null result of
\* extractPeriodFromFilename has 1 <= month <= 12 and 2010 <= year <=
\* currentYear + 5, and a filename whose month or year is out of range yields
\* the failure value.
C15_PeriodWithinValidRanges ==
  result.op = "extractPeriodFromFilename" =>
    LET year == parseInt(input.filename.yearDigits)
        month == parseInt(input.filename.monthDigits)
        inRange == /\ 1 <= month /\ month <= 12
                   /\ MinYear <= year /\ year <= CurrentYear + MaxYearsAhead
    IN /\ result.out # Null =>
            /\ result.out.year = year /\ result.out.month = month
            /\ inRange
       /\ ~inRange => result.out = Null

\* IG_2025_13.csv: no period
C15_Witness ==
  /\ result.op = "extractPeriodFromFilename"
  /\ input.filename = Filename("IG_", Digits4(CurrentYear), "_", <<1, 3>>, ".csv")
  /\ result.out = Null

----------------------------------------------------------------------------
(* CSV content validation (period_validator) *)

DATA_CONTENT == "data_content_error"

\* the rows shown with the row-error warning: rowErrors.slice(0, 10)
MaxShownRowErrors == 10

\* a parsed CSV row, keyed by the header names (all values are strings)
Row(account, igId, reach, views, followers, status, comment) ==
  [field \in {"Account", "IG ID", "Reach", "Views", "Followers", "Status",
              "Comment"} |->
     CASE field = "Account" -> account
       [] field = "IG ID" -> igId
       [] field = "Reach" -> reach
       [] field = "Views" -> views
       [] field = "Followers" -> followers
       [] field = "Status" -> status
       [] field = "Comment" -> comment]

\* String.prototype.trim on the cell texts in use
trim(text) ==
  CASE text \in {" ", "  "} -> ""
    [] text = " Account" -> "Account"
    [] text = "Reach " -> "Reach"
    [] OTHER -> text

\* parseFloat(String(value).replace(/,/g, '')) on the cell texts in use
parseFloatCell(value) ==
  CASE value = "12" -> [isNaN |-> FALSE, number |-> 12]
    [] value = "1,000" -> [isNaN |-> FALSE, number |-> 1000]
    [] value = "-5" -> [isNaN |-> FALSE, number |-> -5]
    [] OTHER -> [isNaN |-> TRUE, number |-> 0]

Message(severity, text, args) ==
  [type |-> DATA_CONTENT, severity |-> severity, message |-> text, args |-> args]

numericFields == <<"Reach", "Views", "Followers", "Status", "Comment">>

\* the warnings validateDataRow gives for one numeric field
FieldWarnings(row, rowNumber, field) ==
  LET value == row[field]
      numValue == parseFloatCell(value)
  IN IF value = "" THEN <<>>
     ELSE IF numValue.isNaN
     THEN <<Message("warning", "ar inte numeriskt", <<rowNumber>>)
              @@ [field |-> field]>>
     ELSE IF numValue.number < 0
     THEN <<Message("warning", "ar negativt", <<rowNumber, numValue.number>>)
              @@ [field |-> field]>>
     ELSE <<>>

RECURSIVE Flatten(_)
Flatten(lists) ==
  IF lists = <<>> THEN <<>> ELSE Head(lists) \o Flatten(Tail(lists))

\* validateDataRow(row, rowNumber)
validateDataRow(row, rowNumber) ==
  LET errors ==
        (IF row["Account"] = "" \/ trim(row["Account"]) = ""
         THEN <<Message("error", "Saknar Account", <<rowNumber>>)>> ELSE <<>>)
        \o
        (IF row["IG ID"] = "" \/ trim(row["IG ID"]) = ""
         THEN <<Message("error", "Saknar IG ID", <<rowNumber>>)>> ELSE <<>>)
      warnings == Flatten([i \in 1..Len(numericFields) |->
                             FieldWarnings(row, rowNumber, numericFields[i])])
  IN [isValid |-> Len(errors) = 0, errors |-> errors, warnings |-> warnings]

\* validateCSVDataContent(csvData, filename)
validateCSVDataContent(csvData) ==
  IF Len(csvData) = 0
  THEN [isValid |-> FALSE,
        errors |-> <<Message("error", "CSV-filen innehaller ingen data", <<>>)>>,
        warnings |-> <<>>]
  ELSE
  LET n == Len(csvData)
      rowValidation == [i \in 1..n |-> validateDataRow(csvData[i], i)]
      validRows == Cardinality({i \in 1..n : rowValidation[i].isValid})
      rowErrors == Flatten([i \in 1..n |->
                     IF rowValidation[i].isValid THEN <<>>
                     ELSE rowValidation[i].errors])
      rowWarnings == Flatten([i \in 1..n |-> rowValidation[i].warnings])
      errors1 == IF validRows = 0
                 THEN <<Message("error", "Inga giltiga datarader hittades", <<>>)>>
                 ELSE <<>>
      warnings1 == IF validRows # 0 /\ 10 * validRows < 8 * n
                   THEN <<Message("warning", "rader ar giltiga (mindre an 80%)",
                                  <<validRows, n>>)>>
                   ELSE <<>>
      warnings2 == IF Len(rowErrors) > 0 /\ 2 * Len(rowErrors) < n
                   THEN <<Message("warning", "rader har datafel",
                                  <<Len(rowErrors)>>)
                            @@ [rowErrors |-> SubSeq(rowErrors, 1,
                                  IF Len(rowErrors) < MaxShownRowErrors
                                  THEN Len(rowErrors) ELSE MaxShownRowErrors)]>>
                   ELSE <<>>
      errors2 == IF ~(Len(rowErrors) > 0 /\ 2 * Len(rowErrors) < n)
                    /\ 2 * Len(rowErrors) >= n
                 THEN <<Message("error", "For manga datafel",
                                <<Len(rowErrors), n>>)>>
                 ELSE <<>>
      errors == errors1 \o errors2
  IN [isValid |-> Len(errors) = 0, errors |-> errors,
      warnings |-> rowWarnings \o warnings1 \o warnings2]

----------------------------------------------------------------------------
(* validateCSVDataContent applied to a file of rows *)

MaxRows == 24

\* a row without problems, a row with a blank Account, a row without
\* Account and IG ID, and a row whose numbers are negative or not numeric
GoodRow == Row("@alpha", "17", "1,000", "12", "12", "", "")

BlankAccountRow == Row(" ", "18", "12", "12", "12", "COMPLETED", "")

NoIdentityRow == Row("", "", "12", "", "", "COMPLETED", "")

OddNumbersRow == Row("@beta", "19", "-5", "abc", "12", "COMPLETED", "")

Repeat(row, count) == [i \in 1..count |-> row]

InitContent ==
  /\ app = Null
  /\ store = EmptyObj
  /\ dataset = EmptyObj
  /\ added = {}
  /\ result = NoResult
  /\ batch = Null
  /\ \E good \in 0..MaxRows, blank \in 0..MaxRows, none \in 0..MaxRows,
        odd \in 0..1, badFirst \in BOOLEAN :
       /\ good + blank + none + odd <= MaxRows
       /\ input = [csvData |->
            IF badFirst
            THEN Repeat(NoIdentityRow, none) \o Repeat(BlankAccountRow, blank)
                   \o Repeat(OddNumbersRow, odd) \o Repeat(GoodRow, good)
            ELSE Repeat(GoodRow, good) \o Repeat(OddNumbersRow, odd)
                   \o Repeat(BlankAccountRow, blank)
                   \o Repeat(NoIdentityRow, none)]

ValidateCSVDataContent ==
  /\ result = NoResult
  /\ result' = [op |-> "validateCSVDataContent",
                out |-> validateCSVDataContent(input.csvData)]
  /\ UNCHANGED Queries

NextContent == ValidateCSVDataContent

SpecContent == InitContent /\ [][NextContent]_vars

\* the rows of the file that have row-level errors
RowsWithErrors(csvData) ==
  {i \in 1..Len(csvData) : ~validateDataRow(csvData[i], i).isValid}

\* C8: validateCSVDataContent is fatal exactly when the file has zero valid
\* rows or at least 50% of its rows have row-level errors; with more than 0%
\* and fewer than 50% of the rows in error the file stays valid and gets a
\* warning carrying at most the first 10 row errors.
C8_FatalExactlyFromHalfTheRows ==
  result.op = "validateCSVDataContent" =>
    LET n == Len(input.csvData)
        bad == Cardinality(RowsWithErrors(input.csvData))
        out == result.out
    IN /\ ~out.isValid <=> (n - bad = 0 \/ 2 * bad >= n)
       /\ (bad > 0 /\ 2 * bad < n) =>
            /\ out.isValid
            /\ \E i \in 1..Len(out.warnings) :
                 /\ "rowErrors" \in DOMAIN out.warnings[i]
                 /\ Len(out.warnings[i].rowErrors) <= MaxShownRowErrors

----------------------------------------------------------------------------
(* CSV structure validation (period_validator) *)

CSV_STRUCTURE == "csv_structure_error"

\* VALIDATION_CONFIG
REQUIRED_COLUMNS_COUNT == 9

MIN_ROWS == 1

MAX_ROWS == 200

EXPECTED_COLUMNS ==
  <<"Account", "Account Name", "IG ID", "FB Page", "Reach", "Views",
    "Followers", "Status", "Comment">>

StructureMessage(severity, text, args) ==
  [type |-> CSV_STRUCTURE, severity |-> severity, message |-> text,
   args |-> args]

\* array[i] for a zero-based index i: undefined (Null) past the end
At(array, i) == IF i + 1 \in DOMAIN array THEN [value |-> array[i + 1]] ELSE Null

\* !x for a column name or undefined
Falsy(x) == x = Null \/ x.value = ""

\* the comparison loop of validateCSVStructure: the missing and the extra
\* column names
ColumnDifferences(normalizedActual, normalizedExpected) ==
  LET last == IF Len(normalizedActual) > Len(normalizedExpected)
              THEN Len(normalizedActual) ELSE Len(normalizedExpected)
      actual(i) == At(normalizedActual, i - 1)
      expected(i) == At(normalizedExpected, i - 1)
      missingAt(i) ==
        IF actual(i) = expected(i) THEN <<>>
        ELSE IF ~Falsy(expected(i)) /\ Falsy(actual(i)) THEN <<expected(i)>>
        ELSE IF ~Falsy(actual(i)) /\ Falsy(expected(i)) THEN <<>>
        ELSE <<expected(i)>>
      extraAt(i) ==
        IF actual(i) = expected(i) THEN <<>>
        ELSE IF ~Falsy(expected(i)) /\ Falsy(actual(i)) THEN <<>>
        ELSE IF ~Falsy(actual(i)) /\ Falsy(expected(i)) THEN <<actual(i)>>
        ELSE <<actual(i)>>
  IN [missingColumns |-> Flatten([i \in 1..last |-> missingAt(i)]),
      extraColumns |-> Flatten([i \in 1..last |-> extraAt(i)])]

\* mutant: the column names are compared as they stand, without trimming
validateCSVStructure_untrimmed(parseResult) ==
  IF parseResult.meta.fields = Null
  THEN [isValid |-> FALSE,
        errors |-> <<StructureMessage("error", "Kunde inte lasa CSV-kolumner",
                                      <<>>)>>,
        warnings |-> <<>>]
  ELSE
  LET actualColumns == parseResult.meta.fields.list
      differences == ColumnDifferences(actualColumns, EXPECTED_COLUMNS)
      rowCount == Len(parseResult.data)
      errors ==
        (IF Len(actualColumns) # REQUIRED_COLUMNS_COUNT
         THEN <<StructureMessage("error", "Fel antal kolumner",
                                 <<Len(actualColumns)>>)>> ELSE <<>>)
        \o (IF Len(differences.missingColumns) > 0
                \/ Len(differences.extraColumns) > 0
            THEN <<StructureMessage("error", "Felaktiga kolumnnamn",
                                    <<actualColumns>>)>> ELSE <<>>)
        \o (IF rowCount < MIN_ROWS
            THEN <<StructureMessage("error", "For fa rader", <<rowCount>>)>>
            ELSE <<>>)
      warnings ==
        (IF rowCount > MAX_ROWS
         THEN <<StructureMessage("warning", "Manga rader", <<rowCount>>)>>
         ELSE <<>>)
        \o (IF Len(parseResult.errors) > 0
            THEN <<StructureMessage("warning", "CSV-parsningsvarningar",
                                    <<Len(parseResult.errors)>>)>> ELSE <<>>)
  IN [isValid |-> Len(errors) = 0, errors |-> errors, warnings |-> warnings]

\* validateCSVStructure(parseResult, filename) of period_validator;
\* parseResult.meta.fields is Null or List(names)
validateCSVStructure(parseResult) ==
  IF parseResult.meta.fields = Null
  THEN [isValid |-> FALSE,
        errors |-> <<StructureMessage("error", "Kunde inte lasa CSV-kolumner",
                                      <<>>)>>,
        warnings |-> <<>>]
  ELSE
  LET actualColumns == parseResult.meta.fields.list
      normalizedActual == [i \in 1..Len(actualColumns) |->
                             trim(actualColumns[i])]
      normalizedExpected == [i \in 1..Len(EXPECTED_COLUMNS) |->
                               trim(EXPECTED_COLUMNS[i])]
      differences == ColumnDifferences(normalizedActual, normalizedExpected)
      rowCount == Len(parseResult.data)
      errors ==
        (IF Len(actualColumns) # REQUIRED_COLUMNS_COUNT
         THEN <<StructureMessage("error", "Fel antal kolumner",
                                 <<Len(actualColumns)>>)>> ELSE <<>>)
        \o (IF Len(differences.missingColumns) > 0
                \/ Len(differences.extraColumns) > 0
            THEN <<StructureMessage("error", "Felaktiga kolumnnamn",
                                    <<normalizedActual>>)>> ELSE <<>>)
        \o (IF rowCount < MIN_ROWS
            THEN <<StructureMessage("error", "For fa rader", <<rowCount>>)>>
            ELSE <<>>)
      warnings ==
        (IF rowCount > MAX_ROWS
         THEN <<StructureMessage("warning", "Manga rader", <<rowCount>>)>>
         ELSE <<>>)
        \o (IF Len(parseResult.errors) > 0
            THEN <<StructureMessage("warning", "CSV-parsningsvarningar",
                                    <<Len(parseResult.errors)>>)>> ELSE <<>>)
  IN [isValid |-> Len(errors) = 0, errors |-> errors, warnings |-> warnings]

----------------------------------------------------------------------------
(* validateCSVStructure applied to parse results *)

\* the header with one name replaced
WithColumn(i, name) == [EXPECTED_COLUMNS EXCEPT ![i] = name]

\* headers: as expected, padded, too short, too long, renamed, reordered,
\* in another case, with an empty name, empty
Headers ==
  { EXPECTED_COLUMNS,
    WithColumn(1, " Account"),
    [WithColumn(1, " Account") EXCEPT ![5] = "Reach "],
    SubSeq(EXPECTED_COLUMNS, 1, 8),
    EXPECTED_COLUMNS \o <<"Extra">>,
    SubSeq(EXPECTED_COLUMNS, 2, 9) \o <<"Extra">>,
    WithColumn(1, "Konto"),
    [WithColumn(5, "Views") EXCEPT ![6] = "Reach"],
    WithColumn(1, "account"),
    WithColumn(9, ""),
    <<>> }

\* row counts around the minimum and the soft ceiling
RowCounts == {0, MIN_ROWS, MIN_ROWS + 1, MAX_ROWS, MAX_ROWS + 1}

InitStructure ==
  /\ app = Null
  /\ store = EmptyObj
  /\ dataset = EmptyObj
  /\ added = {}
  /\ result = NoResult
  /\ batch = Null
  /\ \E fields \in {List(h) : h \in Headers} \cup {Null},
        rowCount \in RowCounts, parseErrors \in 0..1 :
       input = [parseResult |->
                  [meta |-> [fields |-> fields],
                   data |-> Repeat(GoodRow, rowCount),
                   errors |-> Repeat("TooFewFields", parseErrors)]]

ValidateCSVStructure ==
  /\ result = NoResult
  /\ result' = [op |-> "validateCSVStructure",
                out |-> validateCSVStructure(input.parseResult)]
  /\ UNCHANGED Queries

NextStructure == ValidateCSVStructure

SpecStructure == InitStructure /\ [][NextStructure]_vars

\* some column name differs, after trimming, from the expected name at the
\* same position
SomeNameDiffers(fields) ==
  \E i \in DOMAIN fields \cap DOMAIN EXPECTED_COLUMNS :
    trim(fields[i]) # EXPECTED_COLUMNS[i]

\* C16: for a parsed table with a header, validateCSVStructure is invalid if
\* and only if the header does not have 9 columns, or some column name differs
\* after trimming from the expected name at its position, or the table has
\* fewer than 1 row; more than 200 rows only give a warning.
C16_StructureFatalIff ==
  (result.op = "validateCSVStructure" /\ input.parseResult.meta.fields # Null)
  => LET fields == input.parseResult.meta.fields.list
         rowCount == Len(input.parseResult.data)
         out == result.out
     IN /\ ~out.isValid <=> \/ Len(fields) # 9
                            \/ SomeNameDiffers(fields)
                            \/ rowCount < 1
        /\ rowCount > 200 =>
             /\ \E i \in DOMAIN out.warnings :
                  /\ out.warnings[i].severity = "warning"
                  /\ out.warnings[i].message = "Manga rader"
             /\ \A i \in DOMAIN out.errors :
                  out.errors[i].message # "Manga rader"

\* a padded header over 201 rows: valid, with the row-count warning
C16_Witness ==
  /\ result.op = "validateCSVStructure"
  /\ input.parseResult.meta.fields # Null
  /\ input.parseResult.meta.fields.list # EXPECTED_COLUMNS
  /\ Len(input.parseResult.data) = MAX_ROWS + 1
  /\ result.out.isValid
  /\ Len(result.out.warnings) = 1

----------------------------------------------------------------------------
(* Records built from CSV rows (timeseries_models) *)

\* row[column] || '': a column the row does not have reads as undefined
CellOr(row, column) == IF column \in DOMAIN row THEN row[column] ELSE ""

\* new InstagramAccount(username, accountId, displayName)
InstagramAccount(username, accountId, displayName) ==
  IF username = "" \/ accountId = ""
  THEN Throw("InstagramAccount kraver bade username och accountId")
  ELSE Return([username |-> trim(username), accountId |-> trim(accountId),
               displayName |-> IF displayName # "" THEN trim(displayName)
                               ELSE trim(username)])

\* InstagramAccount.fromCSVRow(csvRow)
InstagramAccount_fromCSVRow(csvRow) ==
  IF CellOr(csvRow, "Account") = "" \/ CellOr(csvRow, "IG ID") = ""
  THEN Throw("CSV-rad saknar obligatoriska falt: Account eller IG ID")
  ELSE InstagramAccount(csvRow["Account"], csvRow["IG ID"],
         IF CellOr(csvRow, "Account Name") # ""
         THEN csvRow["Account Name"] ELSE csvRow["Account"])

\* MonthlyAccountData.parseNumeric(value)
parseNumeric(value) ==
  IF value = "" THEN 0
  ELSE LET parsed == parseFloatCell(value)
       IN IF parsed.isNaN THEN 0 ELSE parsed.number

\* MonthlyAccountData.validateMetrics(rawMetrics) for a CSV row, which has
\* the capitalised keys only: rawMetrics.reach || rawMetrics.Reach
validateMetrics(rawMetrics) ==
  [reach |-> parseNumeric(CellOr(rawMetrics, "Reach")),
   followers |-> parseNumeric(CellOr(rawMetrics, "Followers")),
   views |-> parseNumeric(CellOr(rawMetrics, "Views"))]

\* MonthlyAccountData.fromCSVRow(csvRow, year, month): the constructor checks
\* the period and stores validateMetrics(csvRow)
MonthlyAccountData_fromCSVRow(csvRow, year, month) ==
  LET account == InstagramAccount_fromCSVRow(csvRow)
  IN IF account.status = "throw" THEN account
     ELSE IF year = 0 \/ month = 0 \/ month < 1 \/ month > 12
     THEN Throw("MonthlyAccountData kraver giltigt ar och manad (1-12)")
     ELSE Return(MonthlyAccountData(account.value, year, month,
                                    validateMetrics(csvRow)))

----------------------------------------------------------------------------
(* MonthlyAccountData.fromCSVRow applied to raw rows *)

\* the texts of a metric cell: empty, numbers, a negative number, no number
CellTexts == {"", "12", "1,000", "-5", "abc"}

InitMetrics ==
  /\ app = Null
  /\ store = EmptyObj
  /\ dataset = EmptyObj
  /\ added = {}
  /\ result = NoResult
  /\ batch = Null
  /\ \E reach \in CellTexts, views \in CellTexts, followers \in CellTexts :
       input = [csvRow |-> Row("@alpha", "17", reach, views, followers,
                               "COMPLETED", "")]

FromCSVRow ==
  \E period \in Periods :
    /\ result = NoResult
    /\ result' = [op |-> "fromCSVRow",
                  out |-> MonthlyAccountData_fromCSVRow(input.csvRow,
                                                        period.year, period.month)]
    /\ UNCHANGED Queries

NextMetrics == FromCSVRow

SpecMetrics == InitMetrics /\ [][NextMetrics]_vars

\* the column of the raw row a metric is read from
MetricColumn ==
  [reach |-> "Reach", followers |-> "Followers", views |-> "Views"]

\* C19: every metric value stored in a MonthlyAccountData built from a raw row
\* is a non-negative number, empty or unparsable input becomes 0, and the
\* construction never fails because of a metric cell.
C19_StoredMetricsNonNegative ==
  result.op = "fromCSVRow" =>
    /\ result.out.status = "return"
    /\ \A metric \in Range(allMetrics) :
         /\ result.out.value.metrics[metric] >= 0
         /\ input.csvRow[MetricColumn[metric]] \in {"", "abc"} =>
              result.out.value.metrics[metric] = 0

----------------------------------------------------------------------------
(* Properties of the dataset, checked under Spec *)

\* C9: after any sequence of addMonthlyData and clear the dataset holds at
\* most one record per (accountId, year, month) key, every record of a series
\* has the series' accountId, the record count equals the number of distinct
\* keys added since the last clear, and re-adding a key leaves the count
\* unchanged.
C9_OneRecordPerKey ==
  /\ \A r1 \in StoredRecords(dataset) : \A r2 \in StoredRecords(dataset) :
       RecordKey(r1.data) = RecordKey(r2.data) => r1 = r2
  /\ \A r \in StoredRecords(dataset) :
       r.data.account.accountId = dataset[r.series].account.accountId
  /\ totalDataPoints(dataset) = Cardinality(added)
  /\ Cardinality(StoredRecords(dataset)) = Cardinality(added)
  /\ (result.op = "addMonthlyData" /\ result.replaced) =>
       totalDataPoints(dataset) = result.countBefore

C9_Witness ==
  /\ result.op = "addMonthlyData"
  /\ result.replaced
  /\ result.previous = result.data
  /\ totalDataPoints(dataset) = result.countBefore
  /\ Cardinality(added) = Cardinality(RecordSlots)
  /\ Cardinality(DOMAIN dataset) = Cardinality(Accounts)

\* C10: adding a record whose key already exists replaces the stored record:
\* getMonthlyData for the key returns exactly the new record, and the record
\* under every other key is unchanged.
C10_UpsertReplaces ==
  [][(result'.op = "addMonthlyData" /\ result'.replaced) =>
       LET data == result'.data
       IN /\ Lookup(dataset', data.account.accountId, data.year, data.month)
               = data
          /\ \A slot \in RecordSlots :
               <<slot[1].accountId, slot[2].year, slot[2].month>>
                   # RecordKey(data)
               => Lookup(dataset', slot[1].accountId, slot[2].year,
                         slot[2].month)
                    = Lookup(dataset, slot[1].accountId, slot[2].year,
                             slot[2].month)]_vars

C10_Witness ==
  /\ result.op = "addMonthlyData"
  /\ result.replaced
  /\ \A metric \in Range(allMetrics) :
       result.previous.metrics[metric] # result.data.metrics[metric]
  /\ Lookup(dataset, result.data.account.accountId, result.data.year,
            result.data.month).metrics = result.data.metrics
  /\ totalDataPoints(dataset) > 1

----------------------------------------------------------------------------
(* calculateMarketShare applied to one period of up to three accounts *)

ShareAccounts ==
  Accounts \cup
    {[username |-> "@gamma", accountId |-> "ig3", displayName |-> "Gamma"]}

SharePeriod == [year |-> 2025, month |-> 1]

\* the value an account's record holds for every metric
ShareValues == {-1, 0, 1, 3, 28, 31}

ShareRows ==
  {[reach |-> v, followers |-> v, views |-> v] : v \in ShareValues}

ShareSlots == ShareAccounts \X {SharePeriod}

InitShare ==
  /\ app = Null
  /\ store = EmptyObj
  /\ \E rowOf \in [ShareSlots -> ShareRows \cup {Null}] :
       /\ dataset = AddAll(EmptyObj, ShareSlots, rowOf)
       /\ added = {<<slot[1].accountId, slot[2].year, slot[2].month>> :
                     slot \in {x \in ShareSlots : rowOf[x] # Null}}
  /\ result = NoResult
  /\ batch = Null
  /\ input = Null

CalculateShareOfPeriod ==
  \E metric \in Range(allMetrics) :
    /\ result = NoResult
    /\ result' = [op |-> "calculateMarketShare", period |-> SharePeriod,
                  metric |-> metric,
                  out |-> calculateMarketShare(dataset, SharePeriod.year,
                                               SharePeriod.month, metric)]
    /\ UNCHANGED Queries

NextShare == CalculateShareOfPeriod

SpecShare == InitShare /\ [][NextShare]_vars

\* the accounts that have a record for the period
AccountsInPeriod(ds, period) ==
  {r.data.account.accountId :
     r \in {x \in StoredRecords(ds) : getPeriod(x.data) = period}}

\* C14: for a summable metric and a period in which every account has a valid
\* value and the total is not zero, calculateMarketShare returns one row per
\* account whose marketShare is value / total * 100 rounded to 2 decimals
\* (hundredths here), and the shares sum to 100 within 0.005 per account.
C14_SharesSumTo100 ==
  (result.op = "calculateMarketShare" /\ canSumAcrossPages(result.metric)) =>
    LET values == PeriodValues(dataset, result.period, result.metric)
        n == Cardinality(DOMAIN values)
        total == SumOf(values)
        out == result.out
    IN (DOMAIN values = AccountsInPeriod(dataset, result.period) /\ total # 0)
       => /\ out.status = "return"
          /\ Len(out.value) = n
          /\ {out.value[i].account.accountId : i \in 1..n} = DOMAIN values
          /\ \A i \in 1..n :
               LET value == values[out.value[i].account.accountId]
                   share == out.value[i].marketShare
               IN /\ out.value[i].value = value
                  /\ 2 * Abs(share * total - value * 10000) <= total
          /\ 2 * Abs(SumSeq([i \in 1..n |-> out.value[i].marketShare]) - 10000)
               <= n

\* three accounts with equal values: 33.33 each, 99.99 in all
C14_Witness ==
  /\ result.op = "calculateMarketShare"
  /\ canSumAcrossPages(result.metric)
  /\ result.out.status = "return"
  /\ Len(result.out.value) = 3
  /\ \A i \in 1..3 : result.out.value[i].marketShare = 3333

----------------------------------------------------------------------------
(* Trend analysis (timeseries_analytics) *)

\* mutant: no percentage is given when the previous value is 0
calculatePercentageChange_nullOnZero(currentValue, previousValue) ==
  IF previousValue = 0 THEN Null
  ELSE Ratio((currentValue - previousValue) * 100, previousValue)

\* calculatePercentageChange(currentValue, previousValue) on the numbers a
\* MonthlyAccountData stores (parseNumeric never stores null or undefined)
calculatePercentageChange(currentValue, previousValue) ==
  IF previousValue = 0
  THEN (IF currentValue > 0 THEN Number(100) ELSE Number(0))
  ELSE Ratio((currentValue - previousValue) * 100, previousValue)

\* calculateMonthToMonthTrend(accountTimeseries, metric)
calculateMonthToMonthTrend(accountTimeseries, metric) ==
  IF accountTimeseries = Null
  THEN Throw("calculateMonthToMonthTrend kraver AccountTimeseries och metric")
  ELSE
  LET monthlyData == getAllMonthlyData(accountTimeseries)
  IN IF Len(monthlyData) < 2 THEN Return(<<>>)
     ELSE Return([k \in 1..(Len(monthlyData) - 1) |->
       LET current == monthlyData[k + 1]
           previous == monthlyData[k]
           currentValue == current.metrics[metric]
           previousValue == previous.metrics[metric]
       IN [period |-> getPeriod(current),
           previousPeriod |-> getPeriod(previous),
           currentValue |-> currentValue,
           previousValue |-> previousValue,
           absoluteChange |-> currentValue - previousValue,
           percentageChange |->
             calculatePercentageChange(currentValue, previousValue),
           metric |-> metric,
           username |-> current.account.username,
           accountId |-> current.account.accountId]])

----------------------------------------------------------------------------
(* calculateMonthToMonthTrend applied to the series of one account *)

\* the number of consecutive months a series can cover
MaxTrendLen == 4

TrendPeriods ==
  Range(MonthRange([year |-> 2024, month |-> 11], MaxTrendLen))

TrendAccount == CHOOSE a \in Accounts : a.accountId = "ig1"

\* the metric triples of the trend series
TrendRows ==
  { [reach |-> 0,  followers |-> 100, views |-> -1],
    [reach |-> 50, followers |-> 150, views |-> 0],
    [reach |-> 0,  followers |-> 90,  views |-> 3],
    [reach |-> 2,  followers |-> 0,   views |-> 0] }

TrendSlots == {TrendAccount} \X TrendPeriods

InitTrend ==
  /\ app = Null
  /\ store = EmptyObj
  /\ \E rowOf \in [TrendSlots -> TrendRows \cup {Null}] :
       /\ dataset = AddAll(EmptyObj, TrendSlots, rowOf)
       /\ added = {<<slot[1].accountId, slot[2].year, slot[2].month>> :
                     slot \in {x \in TrendSlots : rowOf[x] # Null}}
  /\ result = NoResult
  /\ batch = Null
  /\ input = Null

\* the series of the account; an account without records has an empty series
TrendSeries ==
  IF getAccountTimeseries(dataset, TrendAccount.accountId) = Null
  THEN NewAccountTimeseries(TrendAccount)
  ELSE getAccountTimeseries(dataset, TrendAccount.accountId)

CalculateMonthToMonthTrend ==
  \E metric \in Range(allMetrics) :
    /\ result = NoResult
    /\ result' = [op |-> "calculateMonthToMonthTrend", metric |-> metric,
                  out |-> calculateMonthToMonthTrend(TrendSeries, metric)]
    /\ UNCHANGED Queries

NextTrend == CalculateMonthToMonthTrend

SpecTrend == InitTrend /\ [][NextTrend]_vars

\* the records of the series, and the k-th of them in chronological order
SeriesRecords == {r.data : r \in StoredRecords(dataset)}

MonthIndex(data) == data.year * 12 + data.month

Chronological(k) ==
  CHOOSE d \in SeriesRecords :
    Cardinality({e \in SeriesRecords : MonthIndex(e) < MonthIndex(d)}) = k - 1

\* C13: calculateMonthToMonthTrend returns an empty list for a series with
\* fewer than 2 records and otherwise one entry per adjacent pair of records
\* in chronological order, with absoluteChange = current - previous and
\* percentageChange = (current - previous) / previous * 100, or 100 (current
\* > 0) or 0 (otherwise) when the previous value is 0.
C13_TrendPerAdjacentPair ==
  result.op = "calculateMonthToMonthTrend" =>
    LET n == Cardinality(SeriesRecords)
        out == result.out
    IN /\ out.status = "return"
       /\ Len(out.value) = (IF n < 2 THEN 0 ELSE n - 1)
       /\ \A k \in 1..Len(out.value) :
            LET current == Chronological(k + 1).metrics[result.metric]
                previous == Chronological(k).metrics[result.metric]
            IN /\ out.value[k].period = getPeriod(Chronological(k + 1))
               /\ out.value[k].previousPeriod = getPeriod(Chronological(k))
               /\ out.value[k].currentValue = current
               /\ out.value[k].previousValue = previous
               /\ out.value[k].absoluteChange = current - previous
               /\ out.value[k].percentageChange
                    = ConventionChange(current, previous)

\* Followers [100, 150, 90] over three consecutive months: changes +50, -40
C13_Witness ==
  /\ result.op = "calculateMonthToMonthTrend"
  /\ result.metric = "followers"
  /\ Cardinality(SeriesRecords) = 3
  /\ [k \in 1..3 |-> Chronological(k).metrics["followers"]] = <<100, 150, 90>>
  /\ MonthIndex(Chronological(3)) = MonthIndex(Chronological(1)) + 2
  /\ [k \in 1..2 |-> result.out.value[k].percentageChange]
       = <<Number(50), Number(-40)>>

----------------------------------------------------------------------------
(* Files and CSV ingestion (csv_processor) *)

\* the text of a file: whether it holds white space only, and what
\* Papa.parse(text, {header: true, skipEmptyLines: true}) makes of it
CsvText(blank, fields, data, errors) ==
  [blank |-> blank,
   parsed |-> [meta |-> [fields |-> fields], data |-> data, errors |-> errors]]

\* a File: name, size and MIME type, and what FileReader.readAsText ends
\* with: onload with the text (readable) or onerror
File(name, size, type, readable, text) ==
  [name |-> name, size |-> size, type |-> type, readable |-> readable,
   text |-> text]

\* extractPeriodFromFile(file, strict = true); file.name is never empty here
extractPeriodFromFile(file, strict) ==
  LET extracted == extractPeriodFromFilename(file.name, strict)
  IN IF extracted = Null THEN Null
     ELSE [year |-> extracted.year, month |-> extracted.month,
           filename |-> extracted.filename, isValid |-> extracted.isValid,
           fileSize |-> file.size]

\* readFileContent(file): the promise resolves on onload, rejects on onerror
readFileContent(file) ==
  IF file.readable THEN Return(file.text) ELSE Throw("Kunde inte lasa fil")

\* parseCSVContent(csvContent, filename): Papa calls complete, which resolves
\* with the parse result, parse warnings included
parseCSVContent(csvContent) == Return(csvContent.parsed)

\* validateCSVStructure(parseResult, filename) of csv_processor, which throws
processor_validateCSVStructure(parseResult) ==
  IF parseResult.meta.fields = Null
  THEN Throw("har ingen header eller ar korrupt")
  ELSE
  LET actualColumns == parseResult.meta.fields.list
      normalizedActual == [i \in 1..Len(actualColumns) |->
                             trim(actualColumns[i])]
      normalizedExpected == [i \in 1..Len(EXPECTED_COLUMNS) |->
                               trim(EXPECTED_COLUMNS[i])]
      missingColumns == {i \in 1..Len(normalizedExpected) :
                           Len(normalizedActual) = Len(normalizedExpected)
                           /\ normalizedActual[i] # normalizedExpected[i]}
  IN IF Len(normalizedActual) # Len(normalizedExpected)
     THEN Throw("fel antal kolumner")
     ELSE IF missingColumns # {} THEN Throw("har felaktiga kolumnnamn")
     ELSE IF Len(parseResult.data) = 0 THEN Throw("innehaller ingen data")
     ELSE Return(TRUE)

\* convertToMonthlyData(csvRows, year, month): rows without Account and
\* IG ID are skipped, rows whose conversion throws are dropped
convertToMonthlyData(csvRows, year, month) ==
  LET converted(i) ==
        IF CellOr(csvRows[i], "Account") = "" /\ CellOr(csvRows[i], "IG ID") = ""
        THEN <<>>
        ELSE LET monthlyData ==
                   MonthlyAccountData_fromCSVRow(csvRows[i], year, month)
             IN IF monthlyData.status = "throw" THEN <<>>
                ELSE <<monthlyData.value>>
      monthlyDataList == Flatten([i \in 1..Len(csvRows) |-> converted(i)])
  IN IF Len(monthlyDataList) = 0
     THEN Throw("Ingen giltig data kunde extraheras fran CSV-filen")
     ELSE Return(monthlyDataList)

\* processInstagramCSV(file) up to its first await: the period of the name
processInstagramCSV_period(file) ==
  LET periodInfo == extractPeriodFromFile(file, TRUE)
  IN IF periodInfo = Null
     THEN Throw("Kunde inte extrahera period fran filnamn")
     ELSE Return(periodInfo)

\* processInstagramCSV(file) from the end of the read: parse, validate the
\* columns, convert the rows
processInstagramCSV_content(file, periodInfo, csvContent) ==
  With(parseCSVContent(csvContent).value, LAMBDA parseResult :
  With(processor_validateCSVStructure(parseResult), LAMBDA structure :
    IF structure.status = "throw" THEN structure
    ELSE
  With(convertToMonthlyData(parseResult.data, periodInfo.year,
                            periodInfo.month),
       LAMBDA monthlyDataList :
    IF monthlyDataList.status = "throw" THEN monthlyDataList
    ELSE Return([period |-> periodInfo,
                 data |-> monthlyDataList.value,
                 metadata |-> [filename |-> file.name,
                               fileSize |-> file.size,
                               rowCount |-> Len(monthlyDataList.value),
                               columns |-> parseResult.meta.fields,
                               errors |-> parseResult.errors,
                               hasErrors |-> Len(parseResult.errors) > 0]]))))

\* processInstagramCSV(file) as a whole, for a read that has ended
processInstagramCSV(file) ==
  With(processInstagramCSV_period(file), LAMBDA periodInfo :
    IF periodInfo.status = "throw" THEN periodInfo
    ELSE
  With(readFileContent(file), LAMBDA csvContent :
    IF csvContent.status = "throw" THEN csvContent
    ELSE processInstagramCSV_content(file, periodInfo.value,
                                     csvContent.value)))

----------------------------------------------------------------------------
(* processMultipleInstagramCSVs: the batch in flight *)

\* mutant: the next file begins while a read is still outstanding
MayBeginFile_withoutAwait(b) == b.position <= Len(b.files)

\* the loop "for (const file of filesArray) { await processInstagramCSV(file)
\* ... }": the next file begins when no awaited read is outstanding
MayBeginFile(b) == b.reading = {} /\ b.position <= Len(b.files)

\* mutant: the first failing file ends the loop
catchFileError_abort(b, file, error) ==
  [b EXCEPT !.errors = Append(@, [filename |-> file.name, error |-> error]),
            !.position = Len(b.files) + 1]

\* the catch block of the loop: the error joins the list, the loop goes on
catchFileError(b, file, error) ==
  [b EXCEPT !.errors = Append(@, [filename |-> file.name, error |-> error])]

\* "for (const monthlyData of result.data) dataset.addMonthlyData(...)": the
\* dataset after the loop, the number of records merged, and the error that
\* ended the loop early (if any)
RECURSIVE addAllMonthlyData(_, _)
addAllMonthlyData(ds, data) ==
  IF data = <<>>
  THEN [dataset |-> ds, count |-> 0, status |-> "return", error |-> ""]
  ELSE LET r == TimeseriesDataset_addMonthlyData(ds, Head(data))
       IN IF r.status = "throw"
          THEN [dataset |-> ds, count |-> 0, status |-> "throw",
                error |-> r.error]
          ELSE LET rest == addAllMonthlyData(r.value, Tail(data))
               IN [rest EXCEPT !.count = @ + 1]

\* the call processMultipleInstagramCSVs(files) after its first statements
processMultipleInstagramCSVs_begin(files) ==
  [fn |-> "processMultipleInstagramCSVs", files |-> files, position |-> 1,
   reading |-> {}, results |-> <<>>, errors |-> <<>>, merged |-> <<>>,
   returned |-> FALSE]

\* an iteration begins: processInstagramCSV(file) runs up to its await, or
\* throws before it
BeginFile ==
  /\ batch # Null /\ batch.fn = "processMultipleInstagramCSVs"
  /\ MayBeginFile(batch)
  /\ LET file == batch.files[batch.position]
         periodInfo == processInstagramCSV_period(file)
         begun == [batch EXCEPT !.position = @ + 1]
     IN batch' = IF periodInfo.status = "throw"
                 THEN catchFileError(begun, file, periodInfo.error)
                 ELSE [begun EXCEPT !.reading = @ \cup {batch.position}]
  /\ UNCHANGED <<dataset, added, result, input, app, store>>

\* the merge loop over result.data and results.push(result), or the catch
\* block if the loop throws: the dataset and the batch after them
mergeResult(b, ds, i, file, processed) ==
  With(addAllMonthlyData(ds, processed.data), LAMBDA merge :
  With([b EXCEPT !.merged = @ \o
          [k \in 1..merge.count |->
             [file |-> i, key |-> RecordKey(processed.data[k])]]],
       LAMBDA logged :
    [dataset |-> merge.dataset,
     batch |-> IF merge.status = "throw"
               THEN catchFileError(logged, file, merge.error)
               ELSE [logged EXCEPT !.results = Append(@, processed)]]))

\* the body of the loop from the end of the read of file i
settleFile(b, ds, i, file) ==
  With(readFileContent(file), LAMBDA csvContent :
    IF csvContent.status = "throw"
    THEN [dataset |-> ds, batch |-> catchFileError(b, file, csvContent.error)]
    ELSE
  With(processInstagramCSV_content(file,
         processInstagramCSV_period(file).value, csvContent.value),
       LAMBDA processed :
    IF processed.status = "throw"
    THEN [dataset |-> ds, batch |-> catchFileError(b, file, processed.error)]
    ELSE mergeResult(b, ds, i, file, processed.value)))

\* a read ends (onload or onerror): the rest of processInstagramCSV runs,
\* then the merge loop and results.push, or the catch block
FileReadEnds ==
  /\ batch # Null /\ batch.fn = "processMultipleInstagramCSVs"
  /\ \E i \in batch.reading :
       \E settled \in {settleFile([batch EXCEPT !.reading = @ \ {i}],
                                  dataset, i, batch.files[i])} :
         /\ batch' = settled.batch
         /\ dataset' = settled.dataset
         /\ added' = added \cup {settled.batch.merged[k].key :
                                   k \in 1..Len(settled.batch.merged)}
  /\ UNCHANGED <<result, input, app, store>>

\* dataset.getAllPeriods().length
totalPeriods(ds) == Cardinality({getPeriod(r.data) : r \in StoredRecords(ds)})

\* the guard on an empty file list and the return statement
ReturnProcessed ==
  /\ batch # Null /\ batch.fn = "processMultipleInstagramCSVs"
  /\ ~batch.returned
  /\ batch.reading = {} /\ batch.position > Len(batch.files)
  /\ result' =
       [op |-> "processMultipleInstagramCSVs",
        out |-> IF Len(batch.files) = 0
                THEN Throw("Inga filer angivna for processering")
                ELSE Return(
                  [dataset |-> dataset,
                   results |-> batch.results,
                   errors |-> batch.errors,
                   summary |-> [totalFiles |-> Len(batch.files),
                                successfulFiles |-> Len(batch.results),
                                failedFiles |-> Len(batch.errors),
                                totalAccounts |-> Cardinality(DOMAIN dataset),
                                totalPeriods |-> totalPeriods(dataset)]])]
  /\ batch' = [batch EXCEPT !.returned = TRUE]
  /\ UNCHANGED <<dataset, added, input, app, store>>

----------------------------------------------------------------------------
(* File validation (period_validator) and validatePeriodSequence *)

FILENAME == "filename_error"

FILE_FORMAT == "file_format_error"

PERIOD_CONFLICT == "period_conflict_error"

\* VALIDATION_CONFIG.MAX_FILE_SIZE: 5 * 1024 * 1024
MAX_FILE_SIZE == 5242880

FileMessage(type, severity, text) ==
  [type |-> type, severity |-> severity, message |-> text]

\* errors.filter(e => e.severity === 'error')
SevereOnly(errors) == SelectSeq(errors, LAMBDA e : e.severity = "error")

\* validateBasicFileProperties(file)
validateBasicFileProperties(file) ==
  LET errors ==
        (IF file.size = 0
         THEN <<FileMessage(FILE_FORMAT, "error", "Filen ar tom")>> ELSE <<>>)
        \o (IF file.size > MAX_FILE_SIZE
            THEN <<FileMessage(FILE_FORMAT, "error", "Filen ar for stor")>>
            ELSE <<>>)
        \o (IF file.type # "" /\ file.type # "text/csv"
                /\ file.type # "application/csv"
            THEN <<FileMessage(FILE_FORMAT, "warning", "Fel filtyp")>>
            ELSE <<>>)
  IN [isValid |-> Len(SevereOnly(errors)) = 0, errors |-> errors]

\* file.name.toLowerCase().endsWith('.csv')
EndsWithRequiredExtension(name) == name.extension \in IgnoreCase(".csv")

\* validateFilenameAndExtractPeriod(file)
validateFilenameAndExtractPeriod(file) ==
  LET extensionErrors ==
        IF ~EndsWithRequiredExtension(file.name)
        THEN <<FileMessage(FILENAME, "error", "Fel filextension")>> ELSE <<>>
      period == extractPeriodFromFile(file, TRUE)
  IN IF period = Null
     THEN [isValid |-> FALSE,
           errors |-> extensionErrors \o
             <<FileMessage(FILENAME, "error",
                           "Filnamnet foljer inte formatet IG_YYYY_MM.csv")>>,
           period |-> Null]
     ELSE LET errors == extensionErrors \o
                (IF ~isValidPeriod(period.year, period.month)
                 THEN <<FileMessage(FILENAME, "error",
                                    "Ogiltig period i filnamn")>>
                 ELSE <<>>)
          IN [isValid |-> Len(errors) = 0, errors |-> errors,
              period |-> period]

\* checkForPeriodDuplicate(period, existingPeriods): a duplicate is a warning
checkForPeriodDuplicate(period, existingPeriods) ==
  IF period = Null \/ Len(existingPeriods) = 0
  THEN [isValid |-> TRUE, warnings |-> <<>>]
  ELSE [isValid |-> TRUE,
        warnings |->
          IF \E k \in 1..Len(existingPeriods) :
               /\ existingPeriods[k].year = period.year
               /\ existingPeriods[k].month = period.month
          THEN <<FileMessage(PERIOD_CONFLICT, "warning",
                             "Period finns redan i denna batch")>>
          ELSE <<>>]

\* validateCSVContent(csvContent, filename) of period_validator
validateCSVContent(csvContent) ==
  IF csvContent.blank
  THEN [isValid |-> FALSE,
        errors |-> <<FileMessage(CSV_STRUCTURE, "error",
                                 "CSV-filen ar tom eller kunde inte lasas")>>,
        warnings |-> <<>>, csvInfo |-> Null]
  ELSE
  With(csvContent.parsed, LAMBDA parseResult :
  With(validateCSVStructure(parseResult), LAMBDA structureValidation :
  With(IF structureValidation.isValid
       THEN validateCSVDataContent(parseResult.data)
       ELSE [isValid |-> TRUE, errors |-> <<>>, warnings |-> <<>>],
       LAMBDA contentValidation :
  With((IF ~structureValidation.isValid THEN structureValidation.errors
        ELSE <<>>)
       \o (IF ~contentValidation.isValid THEN contentValidation.errors
           ELSE <<>>),
       LAMBDA errors :
    [isValid |-> Len(errors) = 0,
     errors |-> errors,
     warnings |-> structureValidation.warnings \o contentValidation.warnings,
     csvInfo |-> [columns |-> IF parseResult.meta.fields = Null THEN <<>>
                              ELSE parseResult.meta.fields.list,
                  rowCount |-> Len(parseResult.data),
                  parseErrors |-> parseResult.errors]]))))

\* the result object validateFile starts with
FreshFileResult(file) ==
  [isValid |-> TRUE, errors |-> <<>>, warnings |-> <<>>,
   fileInfo |-> [name |-> file.name, size |-> file.size, type |-> file.type],
   period |-> Null, csvInfo |-> Null]

\* validateFile(file, existingPeriods), for a read that has ended
validateFile(file, existingPeriods) ==
  With(FreshFileResult(file), LAMBDA fresh :
  With(validateBasicFileProperties(file), LAMBDA basicValidation :
    IF ~basicValidation.isValid
    THEN [fresh EXCEPT !.isValid = FALSE, !.errors = basicValidation.errors]
    ELSE
  With(validateFilenameAndExtractPeriod(file), LAMBDA periodValidation :
    IF ~periodValidation.isValid
    THEN [fresh EXCEPT !.isValid = FALSE, !.errors = periodValidation.errors]
    ELSE
  With(checkForPeriodDuplicate(periodValidation.period, existingPeriods),
       LAMBDA duplicateCheck :
  With([fresh EXCEPT !.period = periodValidation.period,
                     !.warnings = IF ~duplicateCheck.isValid
                                  THEN duplicateCheck.warnings ELSE <<>>],
       LAMBDA withPeriod :
  With(readFileContent(file), LAMBDA csvContent :
    IF csvContent.status = "throw"
    THEN [withPeriod EXCEPT
            !.isValid = FALSE,
            !.errors = <<FileMessage(FILE_FORMAT, "error",
                                     "Ovantat fel vid validering")>>]
    ELSE
  With(validateCSVContent(csvContent.value), LAMBDA csvValidation :
    IF ~csvValidation.isValid
    THEN [withPeriod EXCEPT !.isValid = FALSE,
                            !.errors = csvValidation.errors]
    ELSE [withPeriod EXCEPT !.csvInfo = csvValidation.csvInfo,
                            !.warnings = @ \o csvValidation.warnings])))))))

\* the duplicate and range checks of one period of validatePeriodSequence
RECURSIVE CheckPeriods(_, _, _)
CheckPeriods(periods, seenPeriods, checked) ==
  IF periods = <<>> THEN checked
  ELSE
  LET period == Head(periods)
      periodKey == PeriodKey(period.year, period.month)
      repeated == periodKey \in seenPeriods
      errors ==
        (IF repeated THEN <<"Dublett hittad">> ELSE <<>>)
        \o (IF ~isValidPeriod(period.year, period.month)
            THEN <<"Ogiltig period">> ELSE <<>>)
  IN IF period.year = 0 \/ period.month = 0
     THEN CheckPeriods(Tail(periods), seenPeriods,
            [checked EXCEPT !.isValid = FALSE,
                            !.errors = Append(@, "Ogiltig period")])
     ELSE CheckPeriods(Tail(periods), seenPeriods \cup {periodKey},
            [isValid |-> checked.isValid /\ errors = <<>>,
             errors |-> checked.errors \o errors,
             duplicates |-> IF repeated THEN Append(checked.duplicates, period)
                            ELSE checked.duplicates])

\* mutant: a period seen before is not reported
validatePeriodSequence_noDuplicates(periods) ==
  IF Len(periods) = 0
  THEN [isValid |-> FALSE, errors |-> <<"Inga perioder att validera">>,
        duplicates |-> <<>>]
  ELSE [isValid |-> TRUE, errors |-> <<>>, duplicates |-> <<>>]

\* validatePeriodSequence(periods)
validatePeriodSequence(periods) ==
  IF Len(periods) = 0
  THEN [isValid |-> FALSE, errors |-> <<"Inga perioder att validera">>,
        duplicates |-> <<>>]
  ELSE CheckPeriods(periods, {},
         [isValid |-> TRUE, errors |-> <<>>, duplicates |-> <<>>])

----------------------------------------------------------------------------
(* validateMultipleFiles: the batch in flight *)

\* the call validateMultipleFiles(files) after its first statements
validateMultipleFiles_begin(files) ==
  [fn |-> "validateMultipleFiles", files |-> files, position |-> 1,
   fileResults |-> <<>>, allErrors |-> <<>>, allWarnings |-> <<>>,
   detectedPeriods |-> <<>>, returned |-> FALSE]

\* one iteration of the loop over filesArray
ValidateNextFile ==
  /\ batch # Null /\ batch.fn = "validateMultipleFiles"
  /\ batch.position <= Len(batch.files)
  /\ \E fileResult \in {validateFile(batch.files[batch.position],
                                      batch.detectedPeriods)} :
       batch' = [batch EXCEPT
          !.position = @ + 1,
          !.fileResults = Append(@, fileResult),
          !.allErrors = IF ~fileResult.isValid THEN @ \o fileResult.errors
                        ELSE @,
          !.allWarnings = @ \o fileResult.warnings,
          !.detectedPeriods = IF fileResult.period # Null
                              THEN Append(@, fileResult.period) ELSE @]
  /\ UNCHANGED <<dataset, added, result, input, app, store>>

\* the guard on an empty file list, the sequence validation and the return
\* statement
ReturnValidated ==
  /\ batch # Null /\ batch.fn = "validateMultipleFiles"
  /\ ~batch.returned
  /\ batch.position > Len(batch.files)
  /\ LET sequenceValidation == validatePeriodSequence(batch.detectedPeriods)
         allErrors == batch.allErrors \o
           (IF ~sequenceValidation.isValid
            THEN [k \in 1..Len(sequenceValidation.errors) |->
                    FileMessage(PERIOD_CONFLICT, "error",
                                sequenceValidation.errors[k])]
            ELSE <<>>)
     IN result' =
          [op |-> "validateMultipleFiles",
           out |-> IF Len(batch.files) = 0
                   THEN [isValid |-> FALSE,
                         errors |-> <<FileMessage(FILE_FORMAT, "error",
                                        "Inga filer att validera")>>,
                         fileResults |-> <<>>]
                   ELSE [isValid |-> Len(allErrors) = 0,
                         errors |-> allErrors,
                         warnings |-> batch.allWarnings,
                         fileResults |-> batch.fileResults,
                         summary |->
                           [totalFiles |-> Len(batch.files),
                            validFiles |-> Len(SelectSeq(batch.fileResults,
                                             LAMBDA r : r.isValid)),
                            invalidFiles |-> Len(SelectSeq(batch.fileResults,
                                               LAMBDA r : ~r.isValid)),
                            periodsDetected |-> Len(batch.detectedPeriods),
                            duplicatePeriods |->
                              Len(sequenceValidation.duplicates)]]]
  /\ batch' = [batch EXCEPT !.returned = TRUE]
  /\ UNCHANGED <<dataset, added, input, app, store>>

----------------------------------------------------------------------------
(* The uploader: validateFilename, validateCSVContent, addFiles, processFiles *)

\* validateFilename(filename): /^IG_(\d{4})_(\d{2})\.csv$/, month 1..12,
\* year 2020..2030
validateFilename(filename) ==
  LET match == /\ filename.prefix = "IG_"
               /\ Len(filename.yearDigits) = 4
               /\ filename.separator = "_"
               /\ Len(filename.monthDigits) = 2
               /\ filename.extension = ".csv"
      year == parseInt(filename.yearDigits)
      month == parseInt(filename.monthDigits)
  IN IF ~match
     THEN [isValid |-> FALSE, error |-> "Felaktigt filnamnsformat"]
     ELSE IF month < 1 \/ month > 12
     THEN [isValid |-> FALSE, error |-> "Ogiltig manad"]
     ELSE IF year < 2020 \/ year > 2030
     THEN [isValid |-> FALSE, error |-> "Ogiltigt ar"]
     ELSE [isValid |-> TRUE, year |-> year, month |-> month]

\* validateCSVContent(content, filename) of the uploader
uploader_validateCSVContent(content) ==
  LET results == content.parsed
      headers == IF results.meta.fields = Null THEN <<>>
                 ELSE results.meta.fields.list
      missingColumns == SelectSeq(EXPECTED_COLUMNS,
                                  LAMBDA col : ~Includes(headers, col))
  IN IF Len(results.errors) > 0
     THEN [isValid |-> FALSE, error |-> "CSV-parsningsfel", data |-> Null]
     ELSE IF Len(missingColumns) > 0
     THEN [isValid |-> FALSE, error |-> "Saknade kolumner", data |-> Null]
     ELSE IF Len(results.data) = 0
     THEN [isValid |-> FALSE, error |-> "CSV-filen innehaller ingen data",
           data |-> Null]
     ELSE [isValid |-> TRUE, data |-> List(results.data),
           accountCount |-> Len(results.data), error |-> ""]

\* readFileContent(file) of the uploader
uploader_readFileContent(file) ==
  IF file.readable THEN Return(file.text) ELSE Throw("Kunde inte lasa fil")

\* addFiles(newFiles) on an empty selection: the file items; the id of an
\* item is its place in the list
addFiles(newFiles) ==
  [i \in 1..Len(newFiles) |->
     LET validation == validateFilename(newFiles[i].name)
     IN [file |-> newFiles[i], id |-> i, name |-> newFiles[i].name,
         size |-> newFiles[i].size, validation |-> validation,
         status |-> IF validation.isValid THEN "pending" ELSE "error"]]

\* files.filter(f => f.validation.isValid)
validFiles(files) == SelectSeq(files, LAMBDA f : f.validation.isValid)

\* the call processFiles() after its first statements
processFiles_begin(files) ==
  [fn |-> "processFiles", files |-> files, position |-> 1,
   uploading |-> TRUE, validationErrors |-> <<>>,
   processingStatus |-> EmptyObj, processedPeriods |-> <<>>,
   returned |-> FALSE]

\* one iteration of the loop over validFiles
ProcessNextFile ==
  /\ batch # Null /\ batch.fn = "processFiles"
  /\ batch.position <= Len(validFiles(batch.files))
  /\ LET fileItem == validFiles(batch.files)[batch.position]
         content == uploader_readFileContent(fileItem.file)
         validation == uploader_validateCSVContent(content.value)
         failed(error) ==
           [batch EXCEPT
              !.position = @ + 1,
              !.processingStatus = (fileItem.id :> "error") @@ @,
              !.validationErrors =
                Append(@, [name |-> fileItem.name, error |-> error])]
     IN batch' =
          IF content.status = "throw" THEN failed(content.error)
          ELSE IF ~validation.isValid THEN failed(validation.error)
          ELSE [batch EXCEPT
                  !.position = @ + 1,
                  !.processingStatus = (fileItem.id :> "success") @@ @,
                  !.processedPeriods =
                    Append(@, [isValid |-> TRUE,
                               year |-> fileItem.validation.year,
                               month |-> fileItem.validation.month,
                               data |-> validation.data.list,
                               accountCount |-> validation.accountCount,
                               filename |-> fileItem.name])]
  /\ UNCHANGED <<dataset, added, result, input, app, store>>

\* the end of processFiles: setUploading(false), and onDataUploaded if a
\* file was processed
FinishProcessFiles ==
  /\ batch # Null /\ batch.fn = "processFiles"
  /\ ~batch.returned
  /\ batch.position > Len(validFiles(batch.files))
  /\ result' = [op |-> "processFiles",
                out |-> [validationErrors |-> batch.validationErrors,
                         processingStatus |-> batch.processingStatus,
                         processedPeriods |-> batch.processedPeriods,
                         onDataUploaded |->
                           IF Len(batch.processedPeriods) > 0
                           THEN List(batch.processedPeriods) ELSE Null]]
  /\ batch' = [batch EXCEPT !.uploading = FALSE, !.returned = TRUE]
  /\ UNCHANGED <<dataset, added, input, app, store>>

----------------------------------------------------------------------------
(* The three batch operations applied to batches of files *)

\* the files of one batch at most
MaxBatch == 3

AlphaRowLater == Row("@alpha", "17", "12", "1,000", "12", "", "")

BetaRow == Row("@beta", "19", "12", "12", "12", "COMPLETED", "")

NameOf(prefix, year, monthDigits, extension) ==
  Filename(prefix, Digits4(year), "_", monthDigits, extension)

\* a December file of two accounts
DecemberFile ==
  File(NameOf("IG_", 2024, <<1, 2>>, ".csv"), 1000, "text/csv", TRUE,
       CsvText(FALSE, List(EXPECTED_COLUMNS), <<GoodRow, BetaRow>>, <<>>))

\* a second file of the same December, with other numbers for one account
DecemberAgainFile ==
  File(NameOf("ig_", 2024, <<1, 2>>, ".csv"), 1000, "", TRUE,
       CsvText(FALSE, List(EXPECTED_COLUMNS), <<AlphaRowLater>>, <<>>))

\* a January file with a parse warning and a row without Account and IG ID
JanuaryFile ==
  File(NameOf("IG_", 2025, <<0, 1>>, ".csv"), 1000,
       "application/vnd.ms-excel", TRUE,
       CsvText(FALSE, List(EXPECTED_COLUMNS), <<GoodRow, NoIdentityRow>>,
               <<"TooFewFields">>))

\* a file whose name has no period
WrongNameFile ==
  File(NameOf("FB_", 2024, <<1, 2>>, ".csv"), 1000, "text/csv", TRUE,
       CsvText(FALSE, List(EXPECTED_COLUMNS), <<GoodRow>>, <<>>))

\* a file whose read fails
UnreadableFile ==
  File(NameOf("IG_", 2025, <<0, 1>>, ".csv"), 1000, "text/csv", FALSE,
       CsvText(FALSE, List(EXPECTED_COLUMNS), <<GoodRow>>, <<>>))

\* a file with a column missing
WrongHeaderFile ==
  File(NameOf("IG_", 2024, <<1, 2>>, ".csv"), 1000, "text/csv", TRUE,
       CsvText(FALSE, List(SubSeq(EXPECTED_COLUMNS, 1, 8)), <<GoodRow>>, <<>>))

\* a file whose only row has neither Account nor IG ID
NoRecordsFile ==
  File(NameOf("IG_", 2025, <<0, 2>>, ".csv"), 1000, "text/csv", TRUE,
       CsvText(FALSE, List(EXPECTED_COLUMNS), <<NoIdentityRow>>, <<>>))

\* a file of no bytes: nothing to parse a header from
EmptyFile ==
  File(NameOf("IG_", 2025, <<0, 1>>, ".csv"), 0, "text/csv", TRUE,
       CsvText(TRUE, Null, <<>>, <<>>))

BatchFiles ==
  {DecemberFile, DecemberAgainFile, JanuaryFile, WrongNameFile,
   UnreadableFile, WrongHeaderFile, NoRecordsFile, EmptyFile}

Batches == UNION {[1..n -> BatchFiles] : n \in 0..MaxBatch}

InitBatch ==
  /\ app = Null
  /\ store = EmptyObj
  /\ dataset = EmptyObj
  /\ added = {}
  /\ result = NoResult
  /\ \E files \in Batches :
       /\ input = [files |-> files]
       /\ batch \in {processMultipleInstagramCSVs_begin(files),
                     validateMultipleFiles_begin(files),
                     processFiles_begin(addFiles(files))}

NextBatch ==
  \/ BeginFile
  \/ FileReadEnds
  \/ ReturnProcessed
  \/ ValidateNextFile
  \/ ReturnValidated
  \/ ProcessNextFile
  \/ FinishProcessFiles

SpecBatch == InitBatch /\ [][NextBatch]_vars

\* the places of the files of a batch that satisfy a test, in input order
Places(files, Test(_)) ==
  SelectSeq([i \in 1..Len(files) |-> i], LAMBDA i : Test(files[i]))

\* the file is one processInstagramCSV resolves for
Processable(file) == processInstagramCSV(file).status = "return"

\* the file is one validateFile accepts on its own
Validatable(file) == validateFile(file, <<>>).isValid

\* the file item is one the uploader reads and accepts
Uploadable(fileItem) ==
  /\ uploader_readFileContent(fileItem.file).status = "return"
  /\ uploader_validateCSVContent(fileItem.file.text).isValid

\* the status the uploader shows for a file item:
\* processingStatus[fileItem.id] || fileItem.status
ShownStatus(fileItem, processingStatus) ==
  IF fileItem.id \in DOMAIN processingStatus
  THEN processingStatus[fileItem.id] ELSE fileItem.status

Messages(errors) == [k \in 1..Len(errors) |-> errors[k].message]

C17_Processed ==
  (result.op = "processMultipleInstagramCSVs" /\ Len(batch.files) > 0) =>
    LET files == batch.files
        out == result.out.value
        good == Places(files, Processable)
        bad == Places(files, LAMBDA f : ~Processable(f))
        dataOf(i) == processInstagramCSV(files[i]).value.data
    IN /\ result.out.status = "return"
       /\ out.summary.totalFiles = Len(files)
       /\ out.summary.successfulFiles = Len(good)
       /\ out.summary.failedFiles = Len(bad)
       /\ out.summary.successfulFiles + out.summary.failedFiles
            = out.summary.totalFiles
       /\ out.results = [k \in 1..Len(good) |->
                           processInstagramCSV(files[good[k]]).value]
       /\ [k \in 1..Len(out.errors) |-> out.errors[k].filename]
            = [k \in 1..Len(bad) |-> files[bad[k]].name]
       /\ \A k \in 1..Len(good) : \A n \in 1..Len(dataOf(good[k])) :
            /\ [file |-> good[k], key |-> RecordKey(dataOf(good[k])[n])]
                 \in Range(batch.merged)
            /\ \E r \in StoredRecords(out.dataset) :
                 RecordKey(r.data) = RecordKey(dataOf(good[k])[n])
       /\ \A k \in 1..Len(batch.merged) :
            Processable(files[batch.merged[k].file])
       /\ \A r \in StoredRecords(out.dataset) :
            \E k \in 1..Len(good) : r.data \in Range(dataOf(good[k]))

C17_Validated ==
  (result.op = "validateMultipleFiles" /\ Len(batch.files) > 0) =>
    LET files == batch.files
        out == result.out
        good == Places(files, Validatable)
        bad == Places(files, LAMBDA f : ~Validatable(f))
        ownErrors == Flatten([k \in 1..Len(bad) |->
                       Messages(validateFile(files[bad[k]], <<>>).errors)])
    IN /\ Len(out.fileResults) = Len(files)
       /\ \A i \in 1..Len(files) :
            /\ out.fileResults[i].fileInfo.name = files[i].name
            /\ out.fileResults[i].isValid = Validatable(files[i])
            /\ ~out.fileResults[i].isValid =>
                 Len(out.fileResults[i].errors) > 0
            /\ out.fileResults[i].isValid =>
                 /\ out.fileResults[i].period # Null
                 /\ out.fileResults[i].csvInfo.rowCount
                      = Len(files[i].text.parsed.data)
       /\ Len(out.errors) >= Len(ownErrors)
       /\ SubSeq(Messages(out.errors), 1, Len(ownErrors)) = ownErrors
       /\ out.summary.totalFiles = Len(files)
       /\ out.summary.validFiles = Len(good)
       /\ out.summary.invalidFiles = Len(bad)
       /\ out.summary.validFiles + out.summary.invalidFiles
            = out.summary.totalFiles

C17_Uploaded ==
  result.op = "processFiles" =>
    LET items == batch.files
        out == result.out
        accepted == validFiles(items)
        good == Places(accepted, Uploadable)
        bad == Places(accepted, LAMBDA f : ~Uploadable(f))
        shown(status) ==
          {i \in 1..Len(items) :
             ShownStatus(items[i], out.processingStatus) = status}
    IN /\ Len(out.processedPeriods) = Len(good)
       /\ Len(out.validationErrors) = Len(bad)
       /\ Len(out.processedPeriods) + Len(out.validationErrors)
            = Len(accepted)
       /\ \A k \in 1..Len(good) :
            /\ out.processedPeriods[k].filename = accepted[good[k]].name
            /\ out.processedPeriods[k].data
                 = accepted[good[k]].file.text.parsed.data
            /\ out.processedPeriods[k].accountCount
                 = Len(accepted[good[k]].file.text.parsed.data)
       /\ [k \in 1..Len(out.validationErrors) |->
             out.validationErrors[k].name]
            = [k \in 1..Len(bad) |-> accepted[bad[k]].name]
       /\ \A i \in 1..Len(items) :
            ~items[i].validation.isValid =>
              /\ items[i].id \notin DOMAIN out.processingStatus
              /\ items[i].status = "error"
       /\ Cardinality(shown("success")) = Len(out.processedPeriods)
       /\ shown("success") \cup shown("error") = 1..Len(items)
       /\ (Len(good) > 0) = (out.onDataUploaded # Null)

RECURSIVE SequentialUpsert(_, _)
SequentialUpsert(files, n) ==
  IF n = 0 THEN EmptyObj
  ELSE LET before == SequentialUpsert(files, n - 1)
       IN IF Processable(files[n])
          THEN addAllMonthlyData(before,
                 processInstagramCSV(files[n]).value.data).dataset
          ELSE before

\* the last record with the key among the files that were processed
\* successfully, or Null
RECURSIVE LastRecordOf(_, _, _)
LastRecordOf(files, n, key) ==
  IF n = 0 THEN Null
  ELSE LET data == IF Processable(files[n])
                   THEN processInstagramCSV(files[n]).value.data ELSE <<>>
           places == {k \in 1..Len(data) : RecordKey(data[k]) = key}
       IN IF places # {}
          THEN data[CHOOSE k \in places : \A other \in places : other <= k]
          ELSE LastRecordOf(files, n - 1, key)

\* C18: in processMultipleInstagramCSVs the records of one file are merged
\* completely before any record of the next file, in input order, whatever
\* the order in which reads end; the returned dataset is the sequential upsert
\* of the successful files in input order, and a key that several files hold
\* keeps the record of the last successfully processed file.
C18_MergeSerialized ==
  (batch # Null /\ batch.fn = "processMultipleInstagramCSVs") =>
    /\ \A j, k \in 1..Len(batch.merged) :
         j < k => batch.merged[j].file <= batch.merged[k].file
    /\ Cardinality(batch.reading) <= 1
    /\ (result.op = "processMultipleInstagramCSVs" /\ Len(batch.files) > 0) =>
         /\ result.out.value.dataset
              = SequentialUpsert(batch.files, Len(batch.files))
         /\ \A r \in StoredRecords(result.out.value.dataset) :
              r.data = LastRecordOf(batch.files, Len(batch.files),
                                    RecordKey(r.data))

\* two files of the same December and a January file in between: the
\* December record of the account both hold is the one of the later file
C18_Witness ==
  /\ result.op = "processMultipleInstagramCSVs"
  /\ batch.files = <<DecemberFile, JanuaryFile, DecemberAgainFile>>
  /\ Len(batch.merged) = 4
  /\ Lookup(result.out.value.dataset, "17", 2024, 12).metrics
       = [reach |-> 12, followers |-> 12, views |-> 1000]

\* the period a file resolves to on its own, or Null
ResolvedPeriod(file) == validateFile(file, <<>>).period

\* the places of a batch whose period an earlier file of the batch has too
RepeatedPlaces(files) ==
  {j \in 1..Len(files) :
     /\ ResolvedPeriod(files[j]) # Null
     /\ \E i \in 1..(j - 1) :
          /\ ResolvedPeriod(files[i]) # Null
          /\ ResolvedPeriod(files[i]).year = ResolvedPeriod(files[j]).year
          /\ ResolvedPeriod(files[i]).month = ResolvedPeriod(files[j]).month}

\* C20: when two files of a batch resolve to the same (year, month),
\* validateMultipleFiles reports a batch-level period-conflict error (isValid
\* false, summary.duplicatePeriods counting every repeated occurrence) and
\* still returns a fileResult for every file, each with the isValid the file
\* has on its own.
C20_DuplicatePeriodIsBatchLevel ==
  (result.op = "validateMultipleFiles" /\ Len(batch.files) > 0) =>
    LET files == batch.files
        out == result.out
        conflicts == SelectSeq(out.errors,
                       LAMBDA e : e.type = PERIOD_CONFLICT
                                  /\ e.severity = "error"
                                  /\ e.message = "Dublett hittad")
    IN /\ out.summary.duplicatePeriods = Cardinality(RepeatedPlaces(files))
       /\ Len(conflicts) = Cardinality(RepeatedPlaces(files))
       /\ RepeatedPlaces(files) # {} => ~out.isValid
       /\ Len(out.fileResults) = Len(files)
       /\ \A i \in 1..Len(files) :
            /\ out.fileResults[i].fileInfo.name = files[i].name
            /\ out.fileResults[i].isValid = validateFile(files[i], <<>>).isValid
            /\ Messages(out.fileResults[i].errors)
                 = Messages(validateFile(files[i], <<>>).errors)

\* three valid files of the same December: two repeated occurrences, the
\* batch invalid, every file valid on its own
C20_Witness ==
  /\ result.op = "validateMultipleFiles"
  /\ batch.files = <<DecemberFile, DecemberAgainFile, DecemberFile>>
  /\ ~result.out.isValid
  /\ result.out.summary.duplicatePeriods = 2
  /\ result.out.summary.validFiles = 3
  /\ Len(result.out.errors) = 2
  /\ \A i \in 1..3 : result.out.fileResults[i].isValid

----------------------------------------------------------------------------
(* Correlation and anomaly detection (timeseries_analytics, reach_calculator) *)

\* data.metrics[metric]: undefined (Null) for a key the record does not store
MetricOf(data, metric) ==
  IF metric \in DOMAIN data.metrics THEN [value |-> data.metrics[metric]]
  ELSE Null

\* numerator / Math.sqrt(denominator1 * denominator2), kept exact as the
\* three sums without their common factor (the sums are given multiplied by
\* n * n, which cancels as well).  0 / 0 is NaN.
Pearson(numerator, denominator1, denominator2) ==
  IF denominator1 = 0 \/ denominator2 = 0 THEN [isNaN |-> TRUE]
  ELSE LET g == GCD(GCD(Abs(numerator), denominator1), denominator2)
       IN [isNaN |-> FALSE, numerator |-> numerator \div g,
           denominator1 |-> denominator1 \div g,
           denominator2 |-> denominator2 \div g]

\* the number 0 as a correlation
ZeroCorrelation ==
  [isNaN |-> FALSE, numerator |-> 0, denominator1 |-> 1, denominator2 |-> 1]

\* mutant: the number of valid pairs is not checked
calculateMetricCorrelation_lengthOnly(accountTimeseries, metric1, metric2) ==
  IF accountTimeseries = Null \/ metric1 = "" \/ metric2 = ""
  THEN Throw("calculateMetricCorrelation kraver AccountTimeseries och tva metrics")
  ELSE
  With(getAllMonthlyData(accountTimeseries), LAMBDA monthlyData :
    IF Len(monthlyData) < 3
    THEN Return([correlation |-> Null,
                 message |-> "Behover minst 3 datapunkter for korrelationsanalys"])
    ELSE Return([correlation |-> ZeroCorrelation,
                 sampleSize |-> 0, metric1 |-> metric1, metric2 |-> metric2]))

\* calculateMetricCorrelation(accountTimeseries, metric1, metric2)
calculateMetricCorrelation(accountTimeseries, metric1, metric2) ==
  IF accountTimeseries = Null \/ metric1 = "" \/ metric2 = ""
  THEN Throw("calculateMetricCorrelation kraver AccountTimeseries och tva metrics")
  ELSE
  With(getAllMonthlyData(accountTimeseries), LAMBDA monthlyData :
    IF Len(monthlyData) < 3
    THEN Return([correlation |-> Null,
                 message |-> "Behover minst 3 datapunkter for korrelationsanalys"])
    ELSE
  With(SelectSeq(monthlyData,
                 LAMBDA data : /\ MetricOf(data, metric1) # Null
                               /\ MetricOf(data, metric2) # Null),
       LAMBDA paired :
    IF Len(paired) < 3
    THEN Return([correlation |-> Null,
                 message |-> "Inte tillrackligt med giltiga datapunkter for bada metrics"])
    ELSE
  With([i \in 1..Len(paired) |-> paired[i].metrics[metric1]], LAMBDA values1 :
  With([i \in 1..Len(paired) |-> paired[i].metrics[metric2]], LAMBDA values2 :
  With([i \in 1..Len(paired) |-> Len(paired) * values1[i] - SumSeq(values1)],
       LAMBDA diff1 :
  With([i \in 1..Len(paired) |-> Len(paired) * values2[i] - SumSeq(values2)],
       LAMBDA diff2 :
  With(Pearson(SumSeq([i \in 1..Len(paired) |-> diff1[i] * diff2[i]]),
               SumSeq([i \in 1..Len(paired) |-> diff1[i] * diff1[i]]),
               SumSeq([i \in 1..Len(paired) |-> diff2[i] * diff2[i]])),
       LAMBDA correlation :
    Return([correlation |-> IF correlation.isNaN
                            THEN ZeroCorrelation
                            ELSE correlation,
            sampleSize |-> Len(values1),
            metric1 |-> metric1,
            metric2 |-> metric2,
            mean1 |-> Ratio(SumSeq(values1), Len(values1)),
            mean2 |-> Ratio(SumSeq(values2), Len(values2))]))))))))

\* Math.round(mean + k * threshold * stdDev) for k in {-1, 0, 1}, where
\* mean = total / n and stdDev = Math.sqrt(squares / (n * n * n)): the
\* integer r with r - 1/2 <= the number < r + 1/2, which lies within bound
RoundBound(total, squares, n, threshold, k, bound) ==
  CHOOSE r \in (-bound)..bound :
    LET \* 2 * n * (r -+ 1/2 - mean), to compare with k * sqrt(spread / n)
        low == n * (2 * r - 1) - 2 * total
        high == n * (2 * r + 1) - 2 * total
        spread == 4 * threshold * threshold * squares
        AtMost(x) ==
          IF k = 0 THEN x <= 0
          ELSE IF k = 1 THEN x <= 0 \/ n * x * x <= spread
          ELSE x <= 0 /\ n * x * x >= spread
    IN AtMost(low) /\ ~AtMost(high)

\* the outlier entry of one record; deviation is n * (reach - mean)
Outlier(data, deviation, n, squares) ==
  [period |-> getPeriod(data),
   reach |-> data.metrics.reach,
   deviation |-> IF deviation < 0 THEN "lag" ELSE "hog",
   deviationFromMean |-> Ratio(deviation, n),
   standardDeviations |-> [square |-> Ratio(n * deviation * deviation, squares)],
   username |-> data.account.username,
   accountId |-> data.account.accountId]

\* findReachAnomalies(accountTimeseries, threshold = 2): with the deviations
\* multiplied by n, reach is outside mean -+ threshold * stdDev exactly when
\* n * deviation^2 > threshold^2 * (sum of the squared deviations)
findReachAnomalies(accountTimeseries, threshold) ==
  IF accountTimeseries = Null
  THEN Throw("findReachAnomalies kraver AccountTimeseries")
  ELSE
  With(getAllMonthlyData(accountTimeseries), LAMBDA monthlyData :
    IF Len(monthlyData) < 3
    THEN Return([outliers |-> <<>>, statistics |-> Null])
    ELSE
  With(SelectSeq(monthlyData, LAMBDA data : MetricOf(data, "reach") # Null),
       LAMBDA withReach :
    IF Len(withReach) < 3
    THEN Return([outliers |-> <<>>, statistics |-> Null])
    ELSE
  With(Len(withReach), LAMBDA n :
  With(SumSeq([i \in 1..n |-> withReach[i].metrics.reach]), LAMBDA total :
  With(SumSeq([i \in 1..n |->
                 (n * withReach[i].metrics.reach - total)
                 * (n * withReach[i].metrics.reach - total)]),
       LAMBDA squares :
  With(SelectSeq(withReach, LAMBDA data :
         n * (n * data.metrics.reach - total) * (n * data.metrics.reach - total)
           > threshold * threshold * squares),
       LAMBDA outside :
  With((1 + threshold)
         * MaxSeq([i \in 1..n |-> Abs(withReach[i].metrics.reach)]) + 1,
       LAMBDA bound :
    Return(
      [outliers |->
         [i \in 1..Len(outside) |->
            Outlier(outside[i], n * outside[i].metrics.reach - total, n,
                    squares)],
       statistics |->
         [mean |-> RoundBound(total, squares, n, threshold, 0, bound),
          standardDeviation |-> RoundBound(0, squares, n, 1, 1, bound),
          lowerBound |-> RoundBound(total, squares, n, threshold, -1, bound),
          upperBound |-> RoundBound(total, squares, n, threshold, 1, bound),
          threshold |-> threshold,
          sampleSize |-> n]]))))))))

----------------------------------------------------------------------------
(* Correlation and anomaly detection applied to the series of one account *)

\* metric names a caller passes: the stored ones, one no record stores, none
MetricNames == Range(allMetrics) \cup {"engagement", ""}

\* thresholds in standard deviations (2 is the default)
Thresholds == {1, 2}

CalculateMetricCorrelation ==
  \E metric1 \in MetricNames, metric2 \in MetricNames :
    /\ result = NoResult
    /\ result' = [op |-> "calculateMetricCorrelation",
                  metric1 |-> metric1, metric2 |-> metric2,
                  out |-> calculateMetricCorrelation(TrendSeries, metric1,
                                                     metric2)]
    /\ UNCHANGED Queries

FindReachAnomalies ==
  \E threshold \in Thresholds :
    /\ result = NoResult
    /\ result' = [op |-> "findReachAnomalies", threshold |-> threshold,
                  out |-> findReachAnomalies(TrendSeries, threshold)]
    /\ UNCHANGED Queries

NextSeries == CalculateMetricCorrelation \/ FindReachAnomalies

SpecSeries == InitTrend /\ [][NextSeries]_vars

\* the records of the series that have a number for the metric
WithValue(metric) ==
  {d \in SeriesRecords : metric \in DOMAIN d.metrics}

----------------------------------------------------------------------------
(* Row and parameter validators (csv_processor, aggregated_calculator) *)

\* the numeric-field check of validateCSVRow: the message joins errors, and
\* isValid is left as it is
RowFieldErrors(row, field) ==
  LET value == row[field]
      numValue == parseFloatCell(value)
  IN IF value = "" THEN <<>>
     ELSE IF numValue.isNaN \/ numValue.number < 0
     THEN <<"har ogiltigt varde">>
     ELSE <<>>

\* validateCSVRow(row)
validateCSVRow(row) ==
  LET missingAccount == row["Account"] = "" \/ trim(row["Account"]) = ""
      missingId == row["IG ID"] = "" \/ trim(row["IG ID"]) = ""
  IN [isValid |-> ~missingAccount /\ ~missingId,
      errors |->
        (IF missingAccount THEN <<"Saknar Account (username)">> ELSE <<>>)
        \o (IF missingId THEN <<"Saknar IG ID">> ELSE <<>>)
        \o RowFieldErrors(row, "Reach")
        \o RowFieldErrors(row, "Views")
        \o RowFieldErrors(row, "Followers")]

\* validateAggregationParams(params); params.periods is Null (not given),
\* List(periods) or some other value, params.metric is Null or a name
validateAggregationParams(params) ==
  LET isArray == params.periods # Null /\ "list" \in DOMAIN params.periods
      errors ==
        (IF params.dataset = Null
         THEN <<"Dataset kravs for aggregering">> ELSE <<>>)
        \o (IF params.periods # Null /\ ~isArray
            THEN <<"Periods maste vara en array">> ELSE <<>>)
        \o (IF params.metric # Null
                /\ Includes(NON_SUMMABLE_METRICS, params.metric.value)
                /\ params.operation = "sum"
            THEN <<"Metric kan inte summeras over manader">> ELSE <<>>)
      warnings ==
        IF isArray /\ Len(params.periods.list) = 0
        THEN <<"Tom periods-array angiven">> ELSE <<>>
  IN [isValid |-> Len(errors) = 0, errors |-> errors, warnings |-> warnings]

----------------------------------------------------------------------------
(* The row and parameter validators applied to rows and parameter objects *)

\* rows with every combination of identity and metric cells
ValidatedRows ==
  {Row(account, igId, reach, views, followers, "", "") :
     account \in {"@alpha", " ", ""}, igId \in {"17", ""},
     reach \in CellTexts, views \in CellTexts, followers \in {"12", "abc"}}

\* parameter objects: with and without dataset, periods not given, not an
\* array (an object with a length), empty and non-empty, metric not given,
\* not summable and summable
AggregationParams ==
  {[dataset |-> ds, periods |-> periods, metric |-> metric,
    operation |-> operation] :
     ds \in {Null, [value |-> EmptyObj]},
     periods \in {Null, [length |-> 0], List(<<>>),
                  List(<<[year |-> 2024, month |-> 12]>>)},
     metric \in {Null, [value |-> "reach"], [value |-> "views"]},
     operation \in {"sum", "average"}}

InitValidators ==
  /\ app = Null
  /\ store = EmptyObj
  /\ dataset = EmptyObj
  /\ added = {}
  /\ result = NoResult
  /\ batch = Null
  /\ input \in {[row |-> row] : row \in ValidatedRows}
               \cup {[params |-> params] : params \in AggregationParams}

ValidateCSVRow ==
  /\ result = NoResult
  /\ "row" \in DOMAIN input
  /\ result' = [op |-> "validateCSVRow", out |-> validateCSVRow(input.row)]
  /\ UNCHANGED Queries

ValidateDataRow ==
  /\ result = NoResult
  /\ "row" \in DOMAIN input
  /\ result' = [op |-> "validateDataRow", out |-> validateDataRow(input.row, 1)]
  /\ UNCHANGED Queries

ValidateAggregationParams ==
  /\ result = NoResult
  /\ "params" \in DOMAIN input
  /\ result' = [op |-> "validateAggregationParams",
                out |-> validateAggregationParams(input.params)]
  /\ UNCHANGED Queries

NextValidators ==
  \/ ValidateCSVRow
  \/ ValidateDataRow
  \/ ValidateAggregationParams

SpecValidators == InitValidators /\ [][NextValidators]_vars

\* C22: every validation report has isValid = true exactly when its errors
\* list is empty (here: the reports of validateCSVRow, validateDataRow and
\* validateAggregationParams).
C22_ValidIffNoErrors ==
  result.op \in {"validateCSVRow", "validateDataRow",
                 "validateAggregationParams"} =>
    (result.out.isValid <=> Len(result.out.errors) = 0)

----------------------------------------------------------------------------
(* The summability rules (metric_categorizer, reach_calculator,
   timeseries_analytics) *)

\* Object.keys(METRIC_DEFINITIONS), in insertion order
MetricKeys == <<"reach", "followers", "views">>

getPreferredAggregation(metricKey) ==
  LET definition == getMetricDefinition(metricKey)
  IN IF definition # Null THEN definition.preferredAggregation ELSE "average"

getValidAggregations(metricKey) ==
  LET definition == getMetricDefinition(metricKey)
  IN IF definition # Null THEN definition.validAggregations ELSE <<"average">>

isValidAggregation(metricKey, aggregation) ==
  Includes(getValidAggregations(metricKey), aggregation)

CanSumKey(key) == METRIC_DEFINITIONS[key].canSumAcrossTime

CannotSumKey(key) == ~METRIC_DEFINITIONS[key].canSumAcrossTime

getSummerableMetrics == SelectSeq(MetricKeys, CanSumKey)

getNonSummerableMetrics == SelectSeq(MetricKeys, CannotSumKey)

\* metric_categorizer.validateMetricOperation: a report, never a throw
categorizer_validateMetricOperation(operation, metricKey) ==
  LET definition == getMetricDefinition(metricKey)
  IN IF definition = Null
     THEN [isValid |-> FALSE, error |-> [text |-> "Okant metric"]]
     ELSE IF ~isValidAggregation(metricKey, operation)
     THEN [isValid |-> FALSE, error |-> [text |-> "Operation ar inte giltig"]]
     ELSE IF (operation = "sum" \/ operation = "total")
             /\ ~definition.canSumAcrossTime
     THEN [isValid |-> FALSE,
           error |-> [text |-> "kan ALDRIG summeras over manader"]]
     ELSE [isValid |-> TRUE, error |-> Null]

\* list.filter(m => !other.includes(m))
NotIn(list, other) ==
  LET Missing(m) == ~Includes(other, m) IN SelectSeq(list, Missing)

validateConsistencyWithReachCalculator ==
  LET ourSummerable == getSummerableMetrics
      ourNonSummerable == getNonSummerableMetrics
      errors ==
        (IF Len(NotIn(SUMMABLE_METRICS, ourSummerable)) > 0
         THEN <<"Saknade summerbara metrics">> ELSE <<>>)
        \o (IF Len(NotIn(ourSummerable, SUMMABLE_METRICS)) > 0
            THEN <<"Extra summerbara metrics">> ELSE <<>>)
        \o (IF Len(NotIn(NON_SUMMABLE_METRICS, ourNonSummerable)) > 0
            THEN <<"Saknade icke-summerbara metrics">> ELSE <<>>)
        \o (IF Len(NotIn(ourNonSummerable, NON_SUMMABLE_METRICS)) > 0
            THEN <<"Extra icke-summerbara metrics">> ELSE <<>>)
  IN [isConsistent |-> Len(errors) = 0, errors |-> errors, warnings |-> <<>>]

\* mutant: the list of calculateMetricTotal also names reach
summerableMetrics_withReach == <<"reach", "followers", "views">>

\* const summerableMetrics = ['followers', 'views'] of calculateMetricTotal
summerableMetrics == <<"followers", "views">>

\* timeseries_analytics.calculateMetricTotal
calculateMetricTotal(accountTimeseries, metric) ==
  IF accountTimeseries = Null \/ metric = ""
  THEN Throw("calculateMetricTotal kraver AccountTimeseries och metric")
  ELSE IF ~Includes(summerableMetrics, metric)
  THEN Throw("kan inte summeras over manader")
  ELSE LET monthlyData == getAllMonthlyData(accountTimeseries)
       IN Return(SumSeq([i \in 1..Len(monthlyData) |->
                           monthlyData[i].metrics[metric]]))

----------------------------------------------------------------------------
(* The summability rules applied to metrics, operations and series *)

RuleOperations == {"sum", "total", "average", "mean", "min", "max", "median"}

CategorizerValidateMetricOperation ==
  \E operation \in RuleOperations, metric \in MetricNames :
    /\ result = NoResult
    /\ result' = [op |-> "validateMetricOperation", operation |-> operation,
                  metric |-> metric,
                  out |-> categorizer_validateMetricOperation(operation,
                                                              metric)]
    /\ UNCHANGED Queries

CalculateMetricTotal ==
  \E metric \in MetricNames :
    /\ result = NoResult
    /\ result' = [op |-> "calculateMetricTotal", metric |-> metric,
                  out |-> calculateMetricTotal(TrendSeries, metric)]
    /\ UNCHANGED Queries

ValidateConsistencyWithReachCalculator ==
  /\ result = NoResult
  /\ result' = [op |-> "validateConsistencyWithReachCalculator",
                out |-> validateConsistencyWithReachCalculator]
  /\ UNCHANGED Queries

NextRules ==
  \/ CategorizerValidateMetricOperation
  \/ CalculateMetricTotal
  \/ ValidateConsistencyWithReachCalculator

SpecRules == InitTrend /\ [][NextRules]_vars

\* C23: for a known metric and an operation among sum, total, average, min
\* and max, metric_categorizer's validateMetricOperation reports isValid =
\* false exactly when reach_calculator's validateMetricOperation throws, that
\* is exactly for sum or total of a metric that is not time-summable.
C23_ValidatorsRejectTheSamePairs ==
  (/\ result.op = "validateMetricOperation"
   /\ Includes(MetricKeys, result.metric)
   /\ result.operation \in {"sum", "total", "average", "min", "max"})
  => /\ ~result.out.isValid
          <=> (result.operation \in {"sum", "total"}
               /\ ~canSumAcrossTime(result.metric))
     /\ ~result.out.isValid
          <=> validateMetricOperation(result.operation,
                                      result.metric).status = "throw"

\* the members of a list
AsSet(list) == Range(list)

\* C24: the definitions of summability agree: the metrics with
\* canSumAcrossTime are SUMMABLE_METRICS, the others NON_SUMMABLE_METRICS,
\* the list of calculateMetricTotal is the same set (it refuses exactly the
\* other metrics), 'sum' is a valid aggregation exactly of the time-summable
\* metrics, the preferred aggregation is a valid one, and
\* validateConsistencyWithReachCalculator returns isConsistent = true.
C24_SummabilityDefinitionsAgree ==
  /\ {m \in AsSet(MetricKeys) : canSumAcrossTime(m)} = AsSet(SUMMABLE_METRICS)
  /\ {m \in AsSet(MetricKeys) : ~canSumAcrossTime(m)}
       = AsSet(NON_SUMMABLE_METRICS)
  /\ AsSet(summerableMetrics) = AsSet(SUMMABLE_METRICS)
  /\ \A m \in AsSet(MetricKeys) :
       /\ isValidAggregation(m, "sum") <=> canSumAcrossTime(m)
       /\ isValidAggregation(m, getPreferredAggregation(m))
  /\ result.op = "calculateMetricTotal" /\ result.metric # ""
       => (result.out.status = "throw"
             <=> ~Includes(SUMMABLE_METRICS, result.metric))
  /\ result.op = "validateConsistencyWithReachCalculator"
       => result.out.isConsistent /\ result.out.errors = <<>>

\* the consistency check has run over lists that name every metric
C24_Witness ==
  /\ result.op = "validateConsistencyWithReachCalculator"
  /\ result.out.isConsistent
  /\ Len(getSummerableMetrics) + Len(getNonSummerableMetrics) = Len(MetricKeys)

----------------------------------------------------------------------------
(* The two filename checks applied to the same filename *)

ValidateFilename ==
  /\ result = NoResult
  /\ result' = [op |-> "validateFilename",
                out |-> validateFilename(input.filename)]
  /\ UNCHANGED Queries

NextAccept ==
  \/ ValidateFilename
  \/ ExtractPeriodFromFilename

SpecAccept == InitFilename /\ [][NextAccept]_vars

\* C25: the uploader's validateFilename and the strict
\* extractPeriodFromFilename accept exactly the same filenames and yield the
\* same (year, month): a filename is accepted exactly when it has the IG_
\* prefix, a 4-digit year with 2010 <= year <= currentYear + 5 and a month of
\* 1 or 2 digits in 1..12.
C25_SameFilenamesAccepted ==
  result.op = "validateFilename" =>
    LET period == extractPeriodFromFilename(input.filename, TRUE)
    IN /\ result.out.isValid <=> period # Null
       /\ result.out.isValid /\ period # Null =>
            /\ result.out.year = period.year
            /\ result.out.month = period.month

----------------------------------------------------------------------------
(* Browser storage readers (timeseries_storage) and the App component *)

\* the object saveMonthlyData and saveMonthlyDataBatch put for a record
storageObject(monthlyData) ==
  [id |-> <<monthlyData.account.accountId, monthlyData.year,
            monthlyData.month>>,
   accountId |-> monthlyData.account.accountId,
   username |-> monthlyData.account.username,
   displayName |-> monthlyData.account.displayName,
   year |-> monthlyData.year, month |-> monthlyData.month,
   metrics |-> monthlyData.metrics]

\* getAllPeriods: the distinct (year, month) of the stored objects, sorted
getAllPeriods(db) ==
  LET periodsSet == {[year |-> db[id].year, month |-> db[id].month] :
                       id \in DOMAIN db}
      n == Cardinality(periodsSet)
      periods == CHOOSE s \in [1..n -> periodsSet] : Range(s) = periodsSet
  IN SortWith(periods, ComparePeriod)

\* a.username.localeCompare(b.username)
CompareStoredUsername(a, b) ==
  UsernameRank[a.username] - UsernameRank[b.username]

\* getPeriodData: the stored objects of the period, sorted by username
getPeriodData(db, year, month) ==
  LET ids == {id \in DOMAIN db : db[id].year = year /\ db[id].month = month}
      n == Cardinality(ids)
      keys == CHOOSE s \in [1..n -> ids] : Range(s) = ids
  IN SortWith([i \in 1..n |-> db[keys[i]]], CompareStoredUsername)

\* value || 0 for a stored number
OrZero(metrics, key) ==
  IF key \in DOMAIN metrics /\ metrics[key] # 0
  THEN [number |-> metrics[key]] ELSE [number |-> 0]

\* the row loadExistingData builds from a stored object: the stored object
\* has no pageName and no pageId, so both cells are undefined
csvFormatData(storageData) ==
  [i \in 1..Len(storageData) |->
     [Account |-> IF "pageName" \in DOMAIN storageData[i]
                  THEN [value |-> storageData[i].pageName] ELSE Null,
      AccountID |-> IF "pageId" \in DOMAIN storageData[i]
                    THEN [value |-> storageData[i].pageId] ELSE Null,
      Reach |-> OrZero(storageData[i].metrics, "reach")]]

\* the initial useState values of App
NewApp ==
  [hasData |-> FALSE, showUploader |-> FALSE, activeTab |-> "upload",
   uploadedPeriods |-> <<>>, loadingExistingData |-> TRUE,
   clearingData |-> FALSE]

\* loadExistingData with the storage reads succeeding
loadExistingData(state, db) ==
  LET periods == getAllPeriods(db)
      periodsWithData ==
        [i \in 1..Len(periods) |->
           [year |-> periods[i].year, month |-> periods[i].month,
            data |-> csvFormatData(getPeriodData(db, periods[i].year,
                                                 periods[i].month)),
            filename |-> NameOf("IG_", periods[i].year,
                                <<periods[i].month \div 10,
                                  periods[i].month % 10>>, ".csv")]]
  IN IF Len(periods) > 0
     THEN [state EXCEPT !.uploadedPeriods = periodsWithData,
                        !.hasData = TRUE, !.activeTab = "monthly",
                        !.loadingExistingData = FALSE]
     ELSE [state EXCEPT !.loadingExistingData = FALSE]

SamePeriod(a, b) == a.year = b.year /\ a.month = b.month

\* the forEach of handleDataUploaded over newPeriods
RECURSIVE mergePeriods(_, _)
mergePeriods(mergedPeriods, newPeriods) ==
  IF newPeriods = <<>> THEN mergedPeriods
  ELSE LET newPeriod == Head(newPeriods)
           exists == \E i \in 1..Len(mergedPeriods) :
                       SamePeriod(mergedPeriods[i], newPeriod)
       IN mergePeriods(IF exists THEN mergedPeriods
                       ELSE Append(mergedPeriods, newPeriod),
                       Tail(newPeriods))

\* handleDataUploaded(periodsArray) of the render whose uploadedPeriods is
\* given: the handler reads the uploadedPeriods of its own render
handleDataUploaded(state, uploadedPeriods, periodsArray) ==
  [state EXCEPT !.uploadedPeriods = mergePeriods(uploadedPeriods, periodsArray),
                !.hasData = TRUE, !.showUploader = FALSE,
                !.activeTab = "monthly"]

----------------------------------------------------------------------------
(* App: load at mount, uploads, clears and page reloads *)

\* the uploader runs (processFiles) in flight at most
MaxRuns == 2

UploadedRowsA == <<[Account |-> [value |-> "@alpha"], Reach |-> [text |-> "12"]]>>

UploadedRowsB == <<[Account |-> [value |-> "@alpha"], Reach |-> [text |-> "50"]]>>

\* a period as processFiles delivers it
ProcessedPeriod(year, month, data) ==
  [isValid |-> TRUE, year |-> year, month |-> month, data |-> data,
   accountCount |-> Len(data),
   filename |-> NameOf("IG_", year, <<month \div 10, month % 10>>, ".csv")]

\* the non-empty lists processFiles passes to onDataUploaded
ProcessedLists ==
  { <<ProcessedPeriod(2024, 12, UploadedRowsA)>>,
    <<ProcessedPeriod(2024, 12, UploadedRowsB)>>,
    <<ProcessedPeriod(2024, 12, UploadedRowsA),
      ProcessedPeriod(2025, 1, UploadedRowsB)>> }

StoredObject(accountId, year, month) ==
  storageObject([account |-> CHOOSE a \in Accounts : a.accountId = accountId,
                 year |-> year, month |-> month,
                 metrics |-> [reach |-> 50, followers |-> 150, views |-> 0]])

StoreOf(objects) ==
  [id \in {o.id : o \in objects} |-> CHOOSE o \in objects : o.id = id]

\* what the object store can hold when the page is opened: nothing, or
\* objects put by saveMonthlyData or saveMonthlyDataBatch
OpeningStores ==
  { StoreOf({}),
    StoreOf({StoredObject("ig2", 2024, 12), StoredObject("ig1", 2024, 12),
             StoredObject("ig1", 2025, 1)}) }

PeriodsOf(list) == {<<list[i].year, list[i].month>> : i \in 1..Len(list)}

\* in this specification added holds the (year, month) pairs handed to
\* handleDataUploaded since the last successful clear, and batch the uploader
\* runs in flight
InitApp ==
  /\ app = NewApp
  /\ store \in OpeningStores
  /\ dataset = EmptyObj
  /\ added = {}
  /\ result = NoResult
  /\ batch = {}
  /\ input = Null

Idle == UNCHANGED <<dataset, result, input>>

\* the useEffect at mount; the storage reads succeed or one of them fails
LoadExistingData ==
  /\ app.loadingExistingData
  /\ \E succeeds \in BOOLEAN :
       app' = IF succeeds THEN loadExistingData(app, store)
              ELSE [app EXCEPT !.loadingExistingData = FALSE]
  /\ UNCHANGED <<store, added, batch>>
  /\ Idle

\* onClick={() => setShowUploader(true)}
ShowUploader ==
  /\ ~app.loadingExistingData /\ ~app.showUploader
  /\ app' = [app EXCEPT !.showUploader = TRUE]
  /\ UNCHANGED <<store, added, batch>>
  /\ Idle

\* handleCancelUpload, the button of App's header: the uploader unmounts,
\* its run goes on
HandleCancelUpload ==
  /\ ~app.loadingExistingData /\ app.showUploader
  /\ app' = [app EXCEPT !.showUploader = FALSE]
  /\ batch' = {[run EXCEPT !.mounted = FALSE] : run \in batch}
  /\ UNCHANGED <<store, added>>
  /\ Idle

\* processFiles of the mounted uploader starts (its button is disabled while
\* it runs); the run holds the onDataUploaded of the current render
StartProcessFiles ==
  /\ ~app.loadingExistingData /\ app.showUploader
  /\ \A run \in batch : ~run.mounted
  /\ Cardinality(batch) < MaxRuns
  /\ \E processedPeriods \in ProcessedLists :
       batch' = batch \cup {[mounted |-> TRUE,
                             uploadedPeriods |-> app.uploadedPeriods,
                             processedPeriods |-> processedPeriods]}
  /\ UNCHANGED <<app, store, added>>
  /\ Idle

\* a run ends with onDataUploaded(processedPeriods)
HandleDataUploaded ==
  \E run \in batch :
    /\ app' = handleDataUploaded(app, run.uploadedPeriods,
                                 run.processedPeriods)
    /\ batch' = {[other EXCEPT !.mounted = FALSE] : other \in batch \ {run}}
    /\ added' = added \cup PeriodsOf(run.processedPeriods)
    /\ UNCHANGED store
    /\ Idle

\* handleClearData up to its await, the confirm answered with yes
HandleClearData ==
  /\ ~app.loadingExistingData /\ ~app.showUploader
  /\ app.hasData /\ ~app.clearingData
  /\ app' = [app EXCEPT !.clearingData = TRUE]
  /\ UNCHANGED <<store, added, batch>>
  /\ Idle

\* clearAllData resolves, or its transaction fails
ClearAllDataEnds ==
  /\ app.clearingData
  /\ \E succeeds \in BOOLEAN :
       IF succeeds
       THEN /\ store' = EmptyObj
            /\ result' = [op |-> "clearAllData", out |-> Return(TRUE)]
            /\ app' = [app EXCEPT !.uploadedPeriods = <<>>,
                                  !.hasData = FALSE, !.activeTab = "upload",
                                  !.clearingData = FALSE]
            /\ added' = {}
       ELSE /\ app' = [app EXCEPT !.clearingData = FALSE]
            /\ result' = [op |-> "clearAllData",
                          out |-> Throw("transaction.error")]
            /\ UNCHANGED <<store, added>>
  /\ UNCHANGED <<batch, dataset, input>>

\* the page is reloaded: App mounts anew, the runs of the old page are gone
Reload ==
  /\ ~app.loadingExistingData /\ ~app.clearingData
  /\ app' = NewApp
  /\ batch' = {}
  /\ UNCHANGED <<store, added>>
  /\ Idle

NextApp ==
  \/ LoadExistingData
  \/ ShowUploader
  \/ HandleCancelUpload
  \/ StartProcessFiles
  \/ HandleDataUploaded
  \/ HandleClearData
  \/ ClearAllDataEnds
  \/ Reload

SpecApp == InitApp /\ [][NextApp]_vars

\* C26: uploaded data is still there after a reload: when App mounts anew
\* and loadExistingData has read the storage, uploadedPeriods holds every
\* period handed to handleDataUploaded since the last clear.
C26_UploadsSurviveReload ==
  [][(/\ app.loadingExistingData
      /\ app' = loadExistingData(app, store))
     => added \subseteq PeriodsOf(app'.uploadedPeriods)]_vars

\* a run ends: handleDataUploaded is called
UploadEnds ==
  Cardinality(batch') < Cardinality(batch) /\ ~app'.loadingExistingData

\* C29: uploadedPeriods holds at most one entry per (year, month) in every
\* reachable state; when an upload arrives the entries already present are
\* kept unchanged (a period already present is skipped); a successful clear
\* empties uploadedPeriods and resets hasData to false.
C29_OneEntryPerPeriod ==
  /\ [](\A i, j \in 1..Len(app.uploadedPeriods) :
          SamePeriod(app.uploadedPeriods[i], app.uploadedPeriods[j]) => i = j)
  /\ [][UploadEnds =>
          /\ Len(app'.uploadedPeriods) >= Len(app.uploadedPeriods)
          /\ SubSeq(app'.uploadedPeriods, 1, Len(app.uploadedPeriods))
               = app.uploadedPeriods]_vars
  /\ [][(app.clearingData /\ ~app'.clearingData
          /\ result'.out.status = "return")
        => app'.uploadedPeriods = <<>> /\ ~app'.hasData]_vars

----------------------------------------------------------------------------
(* validatePeriodSequence applied to lists of period objects *)

\* the periods of one list at most
MaxSequence == 3

\* period objects: valid ones, a zero year, a zero month, a year and a month
\* out of range
PeriodObjects ==
  { [year |-> 2024, month |-> 12], [year |-> 2025, month |-> 1],
    [year |-> 0, month |-> 12], [year |-> 2024, month |-> 0],
    [year |-> 2009, month |-> 12], [year |-> 2024, month |-> 13] }

RECURSIVE ListsUpTo(_, _)
ListsUpTo(S, n) ==
  IF n = 0 THEN {<<>>}
  ELSE LET shorter == ListsUpTo(S, n - 1)
       IN shorter \cup {Append(s, x) : s \in shorter, x \in S}

InitSequence ==
  /\ app = Null
  /\ store = EmptyObj
  /\ dataset = EmptyObj
  /\ added = {}
  /\ result = NoResult
  /\ batch = Null
  /\ \E periods \in ListsUpTo(PeriodObjects, MaxSequence) :
       input = [periods |-> periods]

ValidatePeriodSequence ==
  /\ result = NoResult
  /\ result' = [op |-> "validatePeriodSequence",
                out |-> validatePeriodSequence(input.periods)]
  /\ UNCHANGED Queries

NextSequence == ValidatePeriodSequence

SpecSequence == InitSequence /\ [][NextSequence]_vars

\* the places of a list whose (year, month) an earlier place has too
LaterOccurrences(periods) ==
  {j \in 1..Len(periods) :
     \E i \in 1..(j - 1) : /\ periods[i].year = periods[j].year
                           /\ periods[i].month = periods[j].month}

\* the places whose year and month are both non-zero
NonZeroPlaces(periods) ==
  {j \in 1..Len(periods) : periods[j].year # 0 /\ periods[j].month # 0}

\* the entries of a list at the given places, in list order
EntriesAt(periods, places) ==
  LET Kept(i) == i \in places
      kept == SelectSeq([i \in 1..Len(periods) |-> i], Kept)
  IN [k \in 1..Len(kept) |-> periods[kept[k]]]

\* isValid holds exactly for a non-empty list of periods with non-zero year
\* and month in the valid ranges and no repeated pair
ValidExactlyWhenClean(periods, out) ==
  out.isValid <=>
    /\ Len(periods) > 0
    /\ \A j \in 1..Len(periods) :
         /\ periods[j].year # 0 /\ periods[j].month # 0
         /\ MinYear <= periods[j].year
         /\ periods[j].year <= CurrentYear + MaxYearsAhead
         /\ 1 <= periods[j].month /\ periods[j].month <= 12
    /\ LaterOccurrences(periods) = {}

\* C27 as stated: isValid holds exactly for a clean non-empty list, and
\* duplicates lists exactly the second and later occurrences of each repeated
\* (year, month) pair.
C27_DuplicatesAreLaterOccurrences ==
  result.op = "validatePeriodSequence" =>
    /\ ValidExactlyWhenClean(input.periods, result.out)
    /\ result.out.duplicates
         = EntriesAt(input.periods, LaterOccurrences(input.periods))

\* C27 (amended): validatePeriodSequence returns a result object for every
\* list; isValid holds exactly for a clean non-empty list; duplicates lists
\* exactly the second and later occurrences of each repeated pair whose year
\* and month are both non-zero (a period with a zero year or month is
\* reported as invalid and never counted as seen or as duplicate).
C27_DuplicatesAmongNonZeroPeriods ==
  result.op = "validatePeriodSequence" =>
    /\ ValidExactlyWhenClean(input.periods, result.out)
    /\ result.out.duplicates
         = EntriesAt(input.periods,
                     LaterOccurrences(input.periods)
                       \cap NonZeroPlaces(input.periods))
    /\ Len(result.out.errors) > 0 <=> ~result.out.isValid

\* a list with a period of zero year or month and a valid pair twice, the
\* result listing the second occurrence of the pair
C27_Witness ==
  /\ result.op = "validatePeriodSequence"
  /\ NonZeroPlaces(input.periods) # DOMAIN input.periods
  /\ Len(result.out.duplicates) = 1
  /\ result.out.duplicates[1] = [year |-> 2024, month |-> 12]
  /\ ~result.out.isValid

----------------------------------------------------------------------------
(* getTopPerformers (aggregated_calculator) applied to the records of a
   period *)

\* mutant: a negative value takes part in the ranking
getTopPerformers_keepNegative(ds, year, month, metric, topCount) ==
  LET periodData == getDataForPeriod(ds, year, month)
      Stored(data) == metric \in DOMAIN data.metrics
      Descending(a, b) == b.metrics[metric] - a.metrics[metric]
      ranked == SortWith(SelectSeq(periodData, Stored), Descending)
      sorted == SubSeq(ranked, 1, IF topCount < Len(ranked) THEN topCount
                                  ELSE Len(ranked))
  IN IF ds = Null \/ metric = ""
     THEN Throw("getTopPerformers kraver TimeseriesDataset och metric")
     ELSE IF Len(periodData) = 0 THEN Return(<<>>)
     ELSE Return([index \in 1..Len(sorted) |->
                    [rank |-> index,
                     account |-> sorted[index].account,
                     period |-> [year |-> year, month |-> month],
                     metric |-> metric,
                     value |-> sorted[index].metrics[metric],
                     allMetrics |-> sorted[index].metrics]])

\* getTopPerformers(dataset, year, month, metric, topCount), topCount >= 0
getTopPerformers(ds, year, month, metric, topCount) ==
  LET periodData == getDataForPeriod(ds, year, month)
      Valid(data) == /\ metric \in DOMAIN data.metrics
                     /\ data.metrics[metric] >= 0
      Descending(a, b) == b.metrics[metric] - a.metrics[metric]
      ranked == SortWith(SelectSeq(periodData, Valid), Descending)
      sorted == SubSeq(ranked, 1, IF topCount < Len(ranked) THEN topCount
                                  ELSE Len(ranked))
  IN IF ds = Null \/ metric = ""
     THEN Throw("getTopPerformers kraver TimeseriesDataset och metric")
     ELSE IF Len(periodData) = 0 THEN Return(<<>>)
     ELSE Return([index \in 1..Len(sorted) |->
                    [rank |-> index,
                     account |-> sorted[index].account,
                     period |-> [year |-> year, month |-> month],
                     metric |-> metric,
                     value |-> sorted[index].metrics[metric],
                     allMetrics |-> sorted[index].metrics]])

\* the largest topCount asked for
MaxTop == 3

\* three accounts, so that a ranking can tie, order and truncate
TopAccounts ==
  Accounts \cup {[username |-> "@gamma", accountId |-> "ig3",
                  displayName |-> "Gamma"]}

TopPeriod == [year |-> 2024, month |-> 12]

TopSlots == TopAccounts \X {TopPeriod}

InitTop ==
  /\ app = Null
  /\ store = EmptyObj
  /\ \E rowOf \in [TopSlots -> MetricRows \cup {Null}] :
       /\ dataset = AddAll(EmptyObj, TopSlots, rowOf)
       /\ added = {<<slot[1].accountId, slot[2].year, slot[2].month>> :
                     slot \in {x \in TopSlots : rowOf[x] # Null}}
  /\ result = NoResult
  /\ batch = Null
  /\ input = Null

GetTopPerformers ==
  \E period \in Periods, metric \in {"reach", "views", "engagement"},
     topCount \in 0..MaxTop :
    /\ result = NoResult
    /\ result' = [op |-> "getTopPerformers", period |-> period,
                  metric |-> metric, topCount |-> topCount,
                  out |-> getTopPerformers(dataset, period.year, period.month,
                                           metric, topCount)]
    /\ UNCHANGED Queries

NextTop == GetTopPerformers

SpecTop == InitTop /\ [][NextTop]_vars

\* the records of the period that carry a non-negative value of the metric
ValidRecords(period, metric) ==
  {data \in {r.data : r \in StoredRecords(dataset)} :
     /\ data.year = period.year /\ data.month = period.month
     /\ metric \in DOMAIN data.metrics
     /\ data.metrics[metric] >= 0}

\* a comes before b: the larger value first, equal values by handle
RanksBefore(aValue, aUsername, bValue, bUsername) ==
  \/ aValue > bValue
  \/ aValue = bValue /\ UsernameRank[aUsername] < UsernameRank[bUsername]

\* C28: getTopPerformers returns the records of the period with a valid
\* value, by value descending and ties by handle, cut to the first n, with
\* ranks 1..k for k = min(n, number of valid records).
C28_TopPerformersRanked ==
  (result.op = "getTopPerformers") =>
    LET valid == ValidRecords(result.period, result.metric)
        n == result.topCount
        k == IF n < Cardinality(valid) THEN n ELSE Cardinality(valid)
        top == result.out.value
        Listed(data) == \E i \in 1..Len(top) :
                          top[i].account.accountId = data.account.accountId
    IN /\ result.out.status = "return"
       /\ Len(top) = k
       /\ \A i \in 1..Len(top) :
            /\ top[i].rank = i
            /\ \E data \in valid :
                 /\ top[i].account = data.account
                 /\ top[i].value = data.metrics[result.metric]
                 /\ top[i].allMetrics = data.metrics
       /\ \A i, j \in 1..Len(top) :
            i < j => RanksBefore(top[i].value, top[i].account.username,
                                 top[j].value, top[j].account.username)
       /\ \A data \in valid :
            ~Listed(data) =>
              \A i \in 1..Len(top) :
                RanksBefore(top[i].value, top[i].account.username,
                            data.metrics[result.metric],
                            data.account.username)

\* three valid records with a tie, two asked for: the tie is listed by handle
\* and the third record is cut
C28_Witness ==
  /\ result.op = "getTopPerformers"
  /\ result.topCount = 2
  /\ Cardinality(ValidRecords(result.period, result.metric)) = 3
  /\ Len(result.out.value) = 2
  /\ result.out.value[1].value = result.out.value[2].value
  /\ result.out.value[1].account.username = "@alpha"
  /\ result.out.value[2].rank = 2

----------------------------------------------------------------------------
(* saveMonthlyDataBatch (timeseries_storage): the put requests in flight *)

\* mutant: every completion resolves the promise
MayResolve_onAnyCompletion(completed, n) == completed >= 1

\* if (completed === monthlyDataList.length) resolve(results)
MayResolve(completed, n) == completed = n

\* the body of the for loop for one record: the storage object cannot be
\* built from a record without account (a TypeError, caught), otherwise the
\* put request is issued and waits for its callback.  call.settledPlaces is
\* history: the places of the list in the order in which they completed.
issuePut(call, place) ==
  LET monthlyData == call.list[place]
  IN IF monthlyData.account = Null
     THEN [call EXCEPT
             !.results = [@ EXCEPT !.failed = @ + 1,
                                   !.errors = Append(@, [data |-> monthlyData,
                                                         error |-> "TypeError"])],
             !.completed = @ + 1,
             !.resolveCalls = IF MayResolve(call.completed + 1, Len(call.list))
                              THEN @ + 1 ELSE @,
             !.settledPlaces = Append(@, place)]
     ELSE [call EXCEPT !.pending = @ \cup {place}]

RECURSIVE issueAllPuts(_, _)
issueAllPuts(call, place) ==
  IF place > Len(call.list) THEN call
  ELSE issueAllPuts(issuePut(call, place), place + 1)

\* saveMonthlyDataBatch up to the return of its promise, the database opened
saveMonthlyDataBatch_begin(monthlyDataList) ==
  issueAllPuts([fn |-> "saveMonthlyDataBatch", list |-> monthlyDataList,
                pending |-> {},
                results |-> [saved |-> 0, failed |-> 0, errors |-> <<>>],
                completed |-> 0, resolveCalls |-> 0,
                settledPlaces |-> <<>>], 1)

\* request.onsuccess of the put of a place
onsuccess(call, place) ==
  [call EXCEPT
     !.pending = @ \ {place},
     !.results = [@ EXCEPT !.saved = @ + 1],
     !.completed = @ + 1,
     !.resolveCalls = IF MayResolve(call.completed + 1, Len(call.list))
                      THEN @ + 1 ELSE @,
     !.settledPlaces = Append(@, place)]

\* request.onerror of the put of a place
onerror(call, place) ==
  [call EXCEPT
     !.pending = @ \ {place},
     !.results = [@ EXCEPT
                    !.failed = @ + 1,
                    !.errors = Append(@, [id |-> storageObject(call.list[place]).id,
                                          error |-> "request.error.message"])],
     !.completed = @ + 1,
     !.resolveCalls = IF MayResolve(call.completed + 1, Len(call.list))
                      THEN @ + 1 ELSE @,
     !.settledPlaces = Append(@, place)]

\* the settlement of the promise after a step of the call: the first resolve
\* settles it with the results object
promiseAfter(call, settled) ==
  IF settled.op = "none" /\ call.resolveCalls > 0
  THEN [op |-> "saveMonthlyDataBatch", out |-> Return(call.results)]
  ELSE settled

----------------------------------------------------------------------------
(* saveMonthlyDataBatch applied to lists of records, the callbacks arriving
   in any order *)

\* the records of one list at most
MaxSave == 3

SaveMetrics == [reach |-> 3, followers |-> 1, views |-> 2]

\* two records of different accounts and one without account
SaveRecords ==
  {MonthlyAccountData(a, 2024, 12, SaveMetrics) : a \in Accounts}
    \cup {MonthlyAccountData(Null, 2024, 12, SaveMetrics)}

InitSave ==
  /\ app = Null
  /\ store = EmptyObj
  /\ dataset = EmptyObj
  /\ added = {}
  /\ result = NoResult
  /\ batch = Null
  /\ \E list \in ListsUpTo(SaveRecords, MaxSave) : input = [list |-> list]

\* the call: the list is checked, the database opens or fails to open, and
\* the loop issues every put before any callback can run
SaveMonthlyDataBatch ==
  /\ batch = Null /\ result = NoResult
  /\ \E opens \in BOOLEAN :
       IF Len(input.list) = 0
       THEN /\ result' = [op |-> "saveMonthlyDataBatch",
                          out |-> Throw("Tom eller ogiltig manadsdata-lista")]
            /\ batch' = batch
       ELSE IF ~opens
       THEN /\ result' = [op |-> "saveMonthlyDataBatch",
                          out |-> Throw("request.error")]
            /\ batch' = batch
       ELSE \E call \in {saveMonthlyDataBatch_begin(input.list)} :
              /\ batch' = call
              /\ result' = promiseAfter(call, result)
  /\ UNCHANGED <<dataset, added, input, app, store>>

\* the success callback of a pending put: the object is in the store
PutSucceeds ==
  /\ batch # Null
  /\ \E place \in batch.pending :
       \E call \in {onsuccess(batch, place)},
          object \in {storageObject(batch.list[place])} :
         /\ batch' = call
         /\ result' = promiseAfter(call, result)
         /\ store' = (object.id :> object) @@ store
  /\ UNCHANGED <<dataset, added, input, app>>

\* the error callback of a pending put
PutFails ==
  /\ batch # Null
  /\ \E place \in batch.pending :
       \E call \in {onerror(batch, place)} :
         /\ batch' = call
         /\ result' = promiseAfter(call, result)
  /\ UNCHANGED <<dataset, added, input, app, store>>

NextSave ==
  \/ SaveMonthlyDataBatch
  \/ PutSucceeds
  \/ PutFails

SpecSave == InitSave /\ [][NextSave]_vars

\* every put request eventually fires one of its two callbacks
SpecSaveFair ==
  InitSave /\ [][NextSave]_vars /\ WF_vars(PutSucceeds \/ PutFails)

\* the promise is settled with the results object
Resolved ==
  /\ result.op = "saveMonthlyDataBatch"
  /\ result.out.status = "return"

\* the counting of a call: what is counted is what has completed, with one
\* errors entry per failed record, and resolve is called at most once and
\* only when every record has completed
CountedOnce ==
  batch # Null =>
    LET n == Len(batch.list)
        results == batch.results
        settled == batch.settledPlaces
    IN /\ batch.completed = Len(settled)
       /\ \A i, j \in 1..Len(settled) : settled[i] = settled[j] => i = j
       /\ Range(settled) \cup batch.pending = 1..n
       /\ Range(settled) \cap batch.pending = {}
       /\ results.saved + results.failed = batch.completed
       /\ Len(results.errors) = results.failed
       /\ batch.resolveCalls <= 1
       /\ batch.resolveCalls = 1 <=> batch.completed = n
       /\ Resolved <=> batch.resolveCalls = 1
       /\ Resolved =>
            /\ batch.pending = {}
            /\ result.out.value = results
            /\ results.saved + results.failed = n

\* C30: for a non-empty list of n records whose put requests each fire one
\* callback, in any order, the promise of saveMonthlyDataBatch resolves
\* exactly once, only after all n records have completed, with saved +
\* failed = n and one errors entry per failed record; a failing record does
\* not keep the others from being counted.
C30_ResolvesOnceAfterAll ==
  /\ []CountedOnce
  /\ (batch # Null) ~> Resolved

\* three records, the first failing in the loop, one put failing and one
\* succeeding afterwards, the promise resolved with 1 saved and 2 failed
C30_Witness ==
  /\ batch # Null
  /\ Resolved
  /\ Len(batch.list) = 3
  /\ result.out.value.saved = 1
  /\ result.out.value.failed = 2
  /\ Len(result.out.value.errors) = 2
  /\ batch.settledPlaces[1] = 1
  /\ batch.settledPlaces[2] = 3

====
